---- MODULE Spec2Model ----
(***************************************************************************)
(* Model of py_box_cal/box_calculator.py: the MandelbrotWorker (one        *)
(* back-end process behind a lock and two pipes), the MandelbrotPool (one  *)
(* dispatch thread per worker, a task queue and a result queue) and the    *)
(* adaptive loop of calculate_mandelbrot_grid.                             *)
(*                                                                         *)
(* A numeral (za, zb, ca, cb) is opaque text to this program; the model    *)
(* writes the iterate reached after k iterations from zero as the number   *)
(* k, and the coordinate of point idx as the number idx.  The precision    *)
(* and the escape radius are the same in every request of a run and are    *)
(* left out of the request line.                                           *)
(***************************************************************************)
EXTENDS Integers, Sequences, FiniteSets, TLC

\* ---------------------------------------------------------------- bounds
\* Largest grid (total_points) a run starts with.
MaxPoints == 2
\* cpu_count(): the number of workers, and of dispatch threads.
NumWorkers == 2
\* How many times the back-end may misbehave in one run (a malformed
\* response line, or the process exiting on its own).
MaxFaults == 1
\* Largest iteration count of the point and of the result in DupInit.
MaxDupIterations == 3
\* Largest resolution generate_grid and calculate_precision are called with.
MaxRes == 3
\* Longest text every decoder is called with, character by character.
MaxText == 3
\* Largest grid whose first round is followed from its end (line 397) on.
MaxGrid == 201

\* ------------------------------------------------------ program constants
max_total_iterations == 10000000

\* start_max_iterations values a run is started with: negative, zero, the
\* smallest positive budget, half the ceiling, just above half, the ceiling
\* and just above it.
StartBudgets == {-1, 0, 1, 5000000, 5000001, 10000000, 10000001}

Threads == 1..NumWorkers
Workers == 1..NumWorkers
\* The main thread, as a holder of a worker's lock.
MainThread == NumWorkers + 1

\* ------------------------------------------------------------ text lines
\* One whitespace-separated field of a line: a word, the text of an
\* integer (with its value), or the text of a numeral (with its value).
Word(s) == [kind |-> "word", w |-> s, n |-> 0]
IntText(n) == [kind |-> "int", w |-> "", n |-> n]
NumText(n) == [kind |-> "num", w |-> "", n |-> n]

\* int(text): the integer a field denotes; only the text of an integer has one.
IsIntText(tok) == tok.kind = "int"

\* cmd = f"CAL {precision} {za} {zb} {ca} {cb} {max_iterations} {escape_radius}\n"
\* `by` is not part of the text: it records whose request the line is.
CalLine(t, by) ==
    [cmd |-> "CAL", za |-> t.za, zb |-> t.zb, ca |-> t.ca, cb |-> t.cb,
     max_iterations |-> t.max_iterations, by |-> by]

\* "EXIT\n"
ExitLine(by) ==
    [cmd |-> "EXIT", za |-> 0, zb |-> 0, ca |-> 0, cb |-> 0,
     max_iterations |-> 0, by |-> by]

\* A response line: its fields, and (not part of the text) the request it answers.
Line(toks, by) == [toks |-> toks, by |-> by]

\* readline() at end of stream returns '', which strip().split() turns into [].
EofLine == Line(<<>>, 0)

\* What the back-end may answer to a request it handles correctly: it ran
\* c iterations, 1 <= c <= max_iterations, and reports the iterate reached.
\* Not escaped: the whole budget was run.  Escaped: at the first iteration
\* or at the last one of the budget.
EscapeAfter(req) == {c \in {1, req.max_iterations} : c >= 1 /\ c <= req.max_iterations}

ResponseTo(req, flag, c) ==
    Line(<<Word("CAL"), Word(flag), NumText(req.za + c), NumText(req.zb + c), IntText(c)>>,
         req.by)

GoodResponses(req) ==
    {ResponseTo(req, "N", req.max_iterations)}
        \cup {ResponseTo(req, "Y", c) : c \in EscapeAfter(req)}

\* Lines that are not 'CAL <Y|N> <final_za> <final_zb> <integer>'.
BadResponses(req) ==
    LET n == req.max_iterations
        ok == ResponseTo(req, "N", n).toks
    IN  { Line(SubSeq(ok, 1, 4), req.by),                       \* four fields
          Line(ok \o <<Word("extra")>>, req.by),                \* six fields
          Line([ok EXCEPT ![1] = Word("ERR")], req.by),         \* first token not CAL
          Line([ok EXCEPT ![2] = Word("X")], req.by),           \* flag neither Y nor N
          Line([ok EXCEPT ![5] = Word("many")], req.by) }       \* count not an integer

\* parts = response.split(); len(parts) != 5 or parts[0] != 'CAL' raises ValueError
FieldsOk(parts) == ~(Len(parts) # 5 \/ parts[1] # Word("CAL"))

\* calculate returns its dict iff the field check passes and int(parts[4]) succeeds.
ResponseAccepted(parts) == FieldsOk(parts) /\ IsIntText(parts[5])

\* The dict calculate returns.
ParsedResult(parts) ==
    [escaped |-> parts[2].w, final_za |-> parts[3].n, final_zb |-> parts[4].n,
     iterations |-> parts[5].n]

\* --------------------------------------------------------------- records
NoTask == [idx |-> -1, za |-> 0, zb |-> 0, ca |-> 0, cb |-> 0, max_iterations |-> 0]
NoResult ==
    [escaped |-> "", final_za |-> 0, final_zb |-> 0, iterations |-> 0,
     idx |-> -1, ca |-> 0, cb |-> 0]

\* results[idx] as created at lines 323-333; final_za and final_zb are keys
\* the dict does not have until a result is applied (has_final).
NewPoint(idx) ==
    [ca |-> idx, cb |-> idx, x |-> 0, y |-> 0, za |-> 0, zb |-> 0, escaped |-> "N",
     iterations |-> 0, has_final |-> FALSE, final_za |-> 0, final_zb |-> 0]

\* GridLoop with the imaginary axis as the outer loop.
RECURSIVE GridLoop_ImagOuter(_, _, _, _)
GridLoop_ImagOuter(i, j, R, S) ==
    IF j >= S THEN <<>>
    ELSE IF i >= R THEN GridLoop_ImagOuter(0, j + 1, R, S)
    ELSE <<[x |-> i, y |-> j]>> \o GridLoop_ImagOuter(i + 1, j, R, S)

\* generate_grid's loops, lines 137-157, from the pass (i, j) on: the grid
\* coordinates (x, y) = (i, j) of the tuples appended, in order.
RECURSIVE GridLoop(_, _, _, _)
GridLoop(i, j, R, S) ==
    IF i >= R THEN <<>>
    ELSE IF j >= S THEN GridLoop(i + 1, 0, R, S)
    ELSE <<[x |-> i, y |-> j]>> \o GridLoop(i, j + 1, R, S)

\* results[idx] for the grid tuple g = grid[idx], lines 323-333.
GridPoint(idx, g) == [NewPoint(idx) EXCEPT !.x = g.x, !.y = g.y]

\* The row writer.writerow is given for point r, lines 432-441.
CsvRow(r) ==
    [X |-> r.x, Y |-> r.y, CA |-> r.ca, CB |-> r.cb, ESCAPED |-> r.escaped,
     ITERATIONS |-> r.iterations, FINAL_ZA |-> r.final_za, FINAL_ZB |-> r.final_zb]

\* RowsWritten that leaves out the first point.
RowsWritten_SkipFirst(res, n) == [k \in 1..(n - 1) |-> CsvRow(res[k])]

\* `for idx in range(n)` of line 430: the rows written for points 0..n-1.
RowsWritten(res, n) == [k \in 1..n |-> CsvRow(res[k - 1])]

\* The first point r['final_za'] raises KeyError for, or n when there is none.
FirstMissing(res, n) ==
    IF \A idx \in 0..(n - 1) : res[idx].has_final THEN n
    ELSE CHOOSE idx \in 0..(n - 1) :
             /\ ~res[idx].has_final
             /\ \A k \in 0..(idx - 1) : res[k].has_final

\* TaskFor that sends the round's target instead of what is left to run.
TaskFor_WholeTarget(idx, r, iterations_to_run) ==
    [idx |-> idx, za |-> r.za, zb |-> r.zb, ca |-> r.ca, cb |-> r.cb,
     max_iterations |-> iterations_to_run + r.iterations]

\* The task tuple submit() puts on the task queue.
TaskFor(idx, r, iterations_to_run) ==
    [idx |-> idx, za |-> r.za, zb |-> r.zb, ca |-> r.ca, cb |-> r.cb,
     max_iterations |-> iterations_to_run]

RECURSIVE Ascending(_)
Ascending(S) ==
    IF S = {} THEN <<>>
    ELSE LET m == CHOOSE x \in S : \A y \in S : x <= y
         IN  <<m>> \o Ascending(S \ {m})

\* UnescapeIndices without the test of the escaped flag.
UnescapeIndices_NoEscapeTest(res, n, target) ==
    Ascending({idx \in 0..(n - 1) :
                 /\ res[idx].iterations < max_total_iterations
                 /\ res[idx].iterations < target})

\* UnescapeIndices without the test against the round's target.
UnescapeIndices_NoTargetTest(res, n, target) ==
    Ascending({idx \in 0..(n - 1) :
                 /\ res[idx].escaped = "N"
                 /\ res[idx].iterations < max_total_iterations})

\* unescape_indices, lines 348-353.
UnescapeIndices(res, n, target) ==
    Ascending({idx \in 0..(n - 1) :
                 /\ res[idx].escaped = "N"
                 /\ res[idx].iterations < max_total_iterations
                 /\ res[idx].iterations < target})

\* ApplyResult that leaves the starting iterate of the next round as it was.
ApplyResult_KeepStart(p, res) ==
    [p EXCEPT !.escaped = res.escaped,
              !.has_final = TRUE,
              !.final_za = res.final_za,
              !.final_zb = res.final_zb,
              !.iterations = p.iterations + res.iterations]

\* ApplyResult that does not add the iterations of the round.
ApplyResult_NoCount(p, res) ==
    [p EXCEPT !.escaped = res.escaped,
              !.has_final = TRUE,
              !.final_za = res.final_za,
              !.final_zb = res.final_zb,
              !.za = res.final_za,
              !.zb = res.final_zb]

\* The body of `for res in batch_results`, lines 383-395, on one point.
ApplyResult(p, res) ==
    [p EXCEPT !.escaped = res.escaped,
              !.has_final = TRUE,
              !.final_za = res.final_za,
              !.final_zb = res.final_zb,
              !.iterations = p.iterations + res.iterations,
              !.za = res.final_za,
              !.zb = res.final_zb]

\* ApplyTarget by position in the batch instead of by the index carried.
ApplyTarget_ByPosition(batch, k, indices) == indices[k]

\* Which point of the collection a result of the batch is applied to:
\* the one whose index the result carries (idx = res['idx']).
ApplyTarget(batch, k, indices) == batch[k].idx

\* LoopDecision whose 1% test also stops at exactly 1%.
LoopDecision_PercentInclusive(n, e, target) ==
    IF e = 0 THEN [stop |-> TRUE, target |-> target]
    ELSE IF e * 100 <= n THEN [stop |-> TRUE, target |-> target]
    ELSE [stop |-> target * 2 > max_total_iterations, target |-> target * 2]

\* LoopDecision without the test against max_total_iterations.
LoopDecision_NoCeiling(n, e, target) ==
    IF e = 0 THEN [stop |-> TRUE, target |-> target]
    ELSE IF e * 100 < n THEN [stop |-> TRUE, target |-> target]
    ELSE [stop |-> FALSE, target |-> target * 2]

\* Lines 397-418: what the loop does after a round in which e of n points
\* escaped and the target was `target`.
LoopDecision(n, e, target) ==
    IF e = 0 THEN [stop |-> TRUE, target |-> target]
    ELSE IF e * 100 < n THEN [stop |-> TRUE, target |-> target]
    ELSE [stop |-> target * 2 > max_total_iterations, target |-> target * 2]

\* -------------------------------------------------------------- variables
VARIABLES
    \* calculate_mandelbrot_grid
    total_points, start_max_iterations, results, max_iterations, pcMain,
    unescape_indices, submit_i, batch_results, apply_i, newly_escaped,
    close_i, error,
    \* generate_grid's resolutions, and the rows written to the output file
    resolution_ca, resolution_cb, csv_rows,
    \* a call of one of the pure functions: which one, its arguments, what
    \* it returned
    fn, args, ret,
    \* MandelbrotPool
    task_queue, unfinished_tasks, result_queue, running,
    \* _worker_thread, one per worker: its position and its locals
    tpc, worker, task, response, result,
    \* MandelbrotWorker and its back-end process
    lock, proc, stdin, stdout,
    \* history: faults injected, rounds started, per-round task accounting,
    \* the points as they were when the round started, EXIT lines written,
    \* how each worker's close() ended
    faults, rounds, submitted, taken, produced, before, exit_sent, closed

gridVars == <<resolution_ca, resolution_cb>>
callVars == <<fn, args, ret>>
mainVars == <<total_points, start_max_iterations, results, max_iterations, pcMain,
              unescape_indices, submit_i, batch_results, apply_i, newly_escaped,
              close_i, error, gridVars, csv_rows, callVars>>
poolVars == <<task_queue, unfinished_tasks, result_queue, running>>
threadVars == <<tpc, worker, task, response, result>>
workerVars == <<lock, proc, stdin, stdout>>
histVars == <<faults, rounds, submitted, taken, produced, before, exit_sent, closed>>
vars == <<mainVars, poolVars, threadVars, workerVars, histVars>>

Points == 0..(total_points - 1)
Zeros == [idx \in 0..(MaxPoints - 1) |-> 0]

\* ------------------------------------------------------------------ Init
\* Everything but the grid size, the starting budget and the points.
InitRest ==
    /\ unescape_indices = <<>>
    /\ submit_i = 1
    /\ batch_results = <<>>
    /\ apply_i = 1
    /\ newly_escaped = 0
    /\ close_i = 1
    /\ error = "none"
    /\ csv_rows = <<>>
    /\ task_queue = <<>>
    /\ unfinished_tasks = 0
    /\ result_queue = <<>>
    /\ running = TRUE
    /\ task = [t \in Threads |-> NoTask]
    /\ response = [t \in Threads |-> EofLine]
    /\ result = [t \in Threads |-> NoResult]
    /\ lock = [w \in Workers |-> {}]
    /\ proc = [w \in Workers |-> "alive"]
    /\ stdin = [w \in Workers |-> <<>>]
    /\ stdout = [w \in Workers |-> <<>>]
    /\ faults = 0
    /\ rounds = 0
    /\ submitted = [idx \in 0..(MaxPoints - 1) |-> 0]
    /\ taken = [idx \in 0..(MaxPoints - 1) |-> 0]
    /\ produced = [idx \in 0..(MaxPoints - 1) |-> 0]
    /\ exit_sent = [w \in Workers |-> 0]
    /\ closed = [w \in Workers |-> "no"]

\* None of the pure functions is being called.
NoCall ==
    /\ fn = "none"
    /\ args = <<>>
    /\ ret = <<>>

\* The state when the adaptive loop is entered (line 345): the grid is
\* generated, the pool is created and started, one thread per worker.
Init ==
    /\ resolution_ca \in 0..MaxPoints
    /\ resolution_cb \in 0..MaxPoints
    /\ resolution_cb >= 1 \/ resolution_cb = resolution_ca
    /\ resolution_ca = 0 => resolution_cb <= 1
    /\ resolution_ca * resolution_cb <= MaxPoints
    /\ total_points = Len(GridLoop(0, 0, resolution_ca, resolution_cb))
    /\ start_max_iterations \in StartBudgets
    /\ max_iterations = start_max_iterations
    /\ results = [idx \in Points |->
                     GridPoint(idx, GridLoop(0, 0, resolution_ca, resolution_cb)[idx + 1])]
    /\ before = results
    /\ pcMain = "select"
    /\ tpc = [t \in Threads |-> "loop"]
    /\ worker = [t \in Threads |-> t]
    /\ InitRest
    /\ NoCall

\* ------------------------------------------------- MandelbrotWorker
\* LockAvailable without mutual exclusion: the `with` block never waits.
LockAvailable_NoLock(w) == TRUE

\* `with self.lock:` is entered only while no other caller holds the lock.
LockAvailable(w) == lock[w] = {}

\* calculate, lines 190-195: take the lock, write the request line and flush.
\* Writing to the pipe of a process that has exited raises BrokenPipeError,
\* which leaves the `with` block (releasing the lock) and calculate.
CalcSend(t) ==
    LET w == worker[t] IN
    /\ tpc[t] = "calc"
    /\ LockAvailable(w)
    /\ IF proc[w] = "exited"
       THEN /\ tpc' = [tpc EXCEPT ![t] = "except"]
            /\ UNCHANGED <<lock, stdin>>
       ELSE /\ lock' = [lock EXCEPT ![w] = @ \cup {t}]
            /\ stdin' = [stdin EXCEPT ![w] = Append(@, CalLine(task[t], t))]
            /\ tpc' = [tpc EXCEPT ![t] = "recv"]
    /\ UNCHANGED <<mainVars, poolVars, worker, task, response, result, proc, stdout,
                   histVars>>

\* calculate, lines 197-211: block for one line (or the end of the stream),
\* parse it, release the lock, and return the dict or raise ValueError.
CalcRecv(t) ==
    LET w == worker[t]
        line == IF stdout[w] # <<>> THEN Head(stdout[w]) ELSE EofLine
    IN
    /\ tpc[t] = "recv"
    /\ stdout[w] # <<>> \/ proc[w] = "exited"
    /\ stdout' = [stdout EXCEPT ![w] = IF @ # <<>> THEN Tail(@) ELSE @]
    /\ lock' = [lock EXCEPT ![w] = @ \ {t}]
    /\ response' = [response EXCEPT ![t] = line]
    /\ IF ResponseAccepted(line.toks)
       THEN /\ result' = [result EXCEPT ![t] =
                             [NoResult EXCEPT !.escaped = ParsedResult(line.toks).escaped,
                                              !.final_za = ParsedResult(line.toks).final_za,
                                              !.final_zb = ParsedResult(line.toks).final_zb,
                                              !.iterations = ParsedResult(line.toks).iterations]]
            /\ tpc' = [tpc EXCEPT ![t] = "put"]
       ELSE /\ result' = result
            /\ tpc' = [tpc EXCEPT ![t] = "except"]
    /\ UNCHANGED <<mainVars, poolVars, worker, task, proc, stdin, histVars>>

\* ------------------------------------------------- the back-end process
\* The process reads one CAL line and writes one well-formed response line.
BackendAnswer(w) ==
    /\ proc[w] = "alive"
    /\ stdin[w] # <<>>
    /\ Head(stdin[w]).cmd = "CAL"
    /\ \E r \in GoodResponses(Head(stdin[w])) :
           stdout' = [stdout EXCEPT ![w] = Append(@, r)]
    /\ stdin' = [stdin EXCEPT ![w] = Tail(@)]
    /\ UNCHANGED <<mainVars, poolVars, threadVars, lock, proc, histVars>>

\* The process reads one CAL line and writes a line of another shape.
BackendGarble(w) ==
    /\ faults < MaxFaults
    /\ proc[w] = "alive"
    /\ stdin[w] # <<>>
    /\ Head(stdin[w]).cmd = "CAL"
    /\ \E r \in BadResponses(Head(stdin[w])) :
           stdout' = [stdout EXCEPT ![w] = Append(@, r)]
    /\ stdin' = [stdin EXCEPT ![w] = Tail(@)]
    /\ faults' = faults + 1
    /\ UNCHANGED <<mainVars, poolVars, threadVars, lock, proc,
                   rounds, submitted, taken, produced, before, exit_sent, closed>>

\* The process reads the EXIT line and exits.
BackendExit(w) ==
    /\ proc[w] = "alive"
    /\ stdin[w] # <<>>
    /\ Head(stdin[w]).cmd = "EXIT"
    /\ proc' = [proc EXCEPT ![w] = "exited"]
    /\ stdin' = [stdin EXCEPT ![w] = <<>>]
    /\ UNCHANGED <<mainVars, poolVars, threadVars, lock, stdout, histVars>>

\* The process exits on its own (a crash, a kill) at any moment of the run;
\* what it had not read is lost, what it had written stays readable.
Crash(w) ==
    /\ faults < MaxFaults
    /\ pcMain \notin {"done", "aborted"}
    /\ proc[w] = "alive"
    /\ proc' = [proc EXCEPT ![w] = "exited"]
    /\ stdin' = [stdin EXCEPT ![w] = <<>>]
    /\ faults' = faults + 1
    /\ UNCHANGED <<mainVars, poolVars, threadVars, lock, stdout,
                   rounds, submitted, taken, produced, before, exit_sent, closed>>

\* ------------------------------------------- MandelbrotPool._worker_thread
\* QueueAfterGet for a get() that leaves the item on the queue.
QueueAfterGet_Peek(q) == q

\* The queue after get() has returned its head item.
QueueAfterGet(q) == Tail(q)

\* `while self.running:`
ThreadLoop(t) ==
    /\ tpc[t] = "loop"
    /\ tpc' = [tpc EXCEPT ![t] = IF running THEN "get" ELSE "exit"]
    /\ UNCHANGED <<mainVars, poolVars, worker, task, response, result, workerVars,
                   histVars>>

\* task = self.task_queue.get(timeout=0.1): queue.Empty -> continue;
\* None -> break; else unpack the task.
ThreadGet(t) ==
    /\ tpc[t] = "get"
    /\ IF task_queue = <<>>
       THEN /\ tpc' = [tpc EXCEPT ![t] = "loop"]
            /\ UNCHANGED <<task_queue, task, taken>>
       ELSE /\ task_queue' = QueueAfterGet(task_queue)
            /\ IF Head(task_queue) = NoTask
               THEN /\ tpc' = [tpc EXCEPT ![t] = "exit"]
                    /\ UNCHANGED <<task, taken>>
               ELSE /\ tpc' = [tpc EXCEPT ![t] = "calc"]
                    /\ task' = [task EXCEPT ![t] = Head(task_queue)]
                    /\ taken' = [taken EXCEPT ![Head(task_queue).idx] = @ + 1]
    /\ UNCHANGED <<mainVars, unfinished_tasks, result_queue, running, worker, response,
                   result, workerVars, faults, rounds, submitted, produced, before,
                   exit_sent, closed>>

\* The index a result is tagged with: result['idx'] = idx, the task's.
ResultIdx(tk) == tk.idx

\* result['idx'] = idx; result['ca'] = ca; result['cb'] = cb;
\* self.result_queue.put(result)
ThreadPut(t) ==
    LET r == [result[t] EXCEPT !.idx = ResultIdx(task[t]), !.ca = task[t].ca,
                               !.cb = task[t].cb]
    IN
    /\ tpc[t] = "put"
    /\ result_queue' = Append(result_queue, r)
    /\ produced' = [produced EXCEPT ![task[t].idx] = @ + 1]
    /\ tpc' = [tpc EXCEPT ![t] = "task_done"]
    /\ UNCHANGED <<mainVars, task_queue, unfinished_tasks, running, worker, task,
                   response, result, workerVars, faults, rounds, submitted, taken,
                   before, exit_sent, closed>>

\* self.task_queue.task_done() after the put, and back to the loop test.
ThreadTaskDone(t) ==
    /\ tpc[t] = "task_done"
    /\ unfinished_tasks' = unfinished_tasks - 1
    /\ tpc' = [tpc EXCEPT ![t] = "loop"]
    /\ task' = [task EXCEPT ![t] = NoTask]
    /\ response' = [response EXCEPT ![t] = EofLine]
    /\ result' = [result EXCEPT ![t] = NoResult]
    /\ UNCHANGED <<mainVars, task_queue, result_queue, running, worker, workerVars,
                   histVars>>

\* except Exception: print the error, task_done(), and back to the loop test.
\* No result is put and nothing else records the failure.
ThreadExcept(t) ==
    /\ tpc[t] = "except"
    /\ unfinished_tasks' = unfinished_tasks - 1
    /\ tpc' = [tpc EXCEPT ![t] = "loop"]
    /\ task' = [task EXCEPT ![t] = NoTask]
    /\ response' = [response EXCEPT ![t] = EofLine]
    /\ result' = [result EXCEPT ![t] = NoResult]
    /\ UNCHANGED <<mainVars, task_queue, result_queue, running, worker, workerVars,
                   histVars>>

ThreadStep(t) ==
    \/ ThreadLoop(t)
    \/ ThreadGet(t)
    \/ CalcSend(t)
    \/ CalcRecv(t)
    \/ ThreadPut(t)
    \/ ThreadTaskDone(t)
    \/ ThreadExcept(t)

\* ----------------------------------------------- calculate_mandelbrot_grid
\* Lines 348-357: select the working set; leave the loop when it is empty.
MainSelect ==
    LET sel == UnescapeIndices(results, total_points, max_iterations) IN
    /\ pcMain = "select"
    /\ unescape_indices' = sel
    /\ IF sel = <<>>
       THEN /\ pcMain' = "close"
            /\ UNCHANGED <<rounds, submitted, taken, produced, before, submit_i>>
       ELSE /\ pcMain' = "submit"
            /\ submit_i' = 1
            /\ rounds' = rounds + 1
            /\ submitted' = Zeros
            /\ taken' = Zeros
            /\ produced' = Zeros
            /\ before' = results
    /\ UNCHANGED <<gridVars, csv_rows, callVars,
                   total_points, start_max_iterations, results, max_iterations,
                   batch_results, apply_i, newly_escaped, close_i, error,
                   poolVars, threadVars, workerVars, faults, exit_sent, closed>>

\* Lines 366-372, one pass of the for loop: skip the point when nothing is
\* left to run, else pool.submit (task_queue.put counts an unfinished task).
MainSubmit ==
    LET idx == unescape_indices[submit_i]
        r == results[idx]
        iterations_to_run == max_iterations - r.iterations
    IN
    /\ pcMain = "submit"
    /\ IF iterations_to_run <= 0
       THEN UNCHANGED <<task_queue, unfinished_tasks, submitted>>
       ELSE /\ task_queue' = Append(task_queue, TaskFor(idx, r, iterations_to_run))
            /\ unfinished_tasks' = unfinished_tasks + 1
            /\ submitted' = [submitted EXCEPT ![idx] = @ + 1]
    /\ IF submit_i = Len(unescape_indices)
       THEN pcMain' = "wait" /\ submit_i' = 1
       ELSE pcMain' = "submit" /\ submit_i' = submit_i + 1
    /\ UNCHANGED <<gridVars, csv_rows, callVars,
                   total_points, start_max_iterations, results, max_iterations,
                   unescape_indices, batch_results, apply_i, newly_escaped, close_i,
                   error, result_queue, running, threadVars, workerVars,
                   faults, rounds, taken, produced, before, exit_sent, closed>>

\* WaitReturns for a wait() that does not join the task queue.
WaitReturns_NoJoin == TRUE

\* task_queue.join() returns when every put has been matched by a task_done.
WaitReturns == unfinished_tasks = 0

\* Line 375, pool.wait(); then get_results starts with an empty list.
MainWait ==
    /\ pcMain = "wait"
    /\ WaitReturns
    /\ pcMain' = "get_results"
    /\ batch_results' = <<>>
    /\ UNCHANGED <<gridVars, csv_rows, callVars,
                   total_points, start_max_iterations, results, max_iterations,
                   unescape_indices, submit_i, apply_i, newly_escaped, close_i, error,
                   poolVars, threadVars, workerVars, histVars>>

\* Line 376, one pass of get_results' loop: a blocking result_queue.get();
\* after len(unescape_indices) of them the batch is returned.
MainGetResults ==
    /\ pcMain = "get_results"
    /\ result_queue # <<>>
    /\ batch_results' = Append(batch_results, Head(result_queue))
    /\ result_queue' = Tail(result_queue)
    /\ IF Len(batch_results) + 1 = Len(unescape_indices)
       THEN pcMain' = "apply" /\ apply_i' = 1 /\ newly_escaped' = 0
       ELSE pcMain' = "get_results" /\ UNCHANGED <<apply_i, newly_escaped>>
    /\ UNCHANGED <<gridVars, csv_rows, callVars,
                   total_points, start_max_iterations, results, max_iterations,
                   unescape_indices, submit_i, close_i, error,
                   task_queue, unfinished_tasks, running, threadVars, workerVars,
                   histVars>>

\* Lines 382-395, one pass of `for res in batch_results`.
MainApply ==
    LET res == batch_results[apply_i]
        idx == ApplyTarget(batch_results, apply_i, unescape_indices)
    IN
    /\ pcMain = "apply"
    /\ results' = [results EXCEPT ![idx] = ApplyResult(@, res)]
    /\ newly_escaped' = IF res.escaped = "Y" THEN newly_escaped + 1 ELSE newly_escaped
    /\ IF apply_i = Len(batch_results)
       THEN pcMain' = "decide" /\ apply_i' = 1
       ELSE pcMain' = "apply" /\ apply_i' = apply_i + 1
    /\ UNCHANGED <<gridVars, csv_rows, callVars,
                   total_points, start_max_iterations, max_iterations,
                   unescape_indices, submit_i, batch_results, close_i, error,
                   poolVars, threadVars, workerVars, histVars>>

\* Lines 397-418: stop, or double max_iterations and go round again.
MainDecide ==
    LET d == LoopDecision(Len(unescape_indices), newly_escaped, max_iterations) IN
    /\ pcMain = "decide"
    /\ max_iterations' = d.target
    /\ pcMain' = IF d.stop THEN "close" ELSE "select"
    /\ UNCHANGED <<gridVars, csv_rows, callVars,
                   total_points, start_max_iterations, results,
                   unescape_indices, submit_i, batch_results, apply_i, newly_escaped,
                   close_i, error, poolVars, threadVars, workerVars, histVars>>

\* ------------------------------------------------- MandelbrotPool.close
\* Line 283: self.running = False
MainClose ==
    /\ pcMain = "close"
    /\ running' = FALSE
    /\ pcMain' = "close_put"
    /\ close_i' = 1
    /\ UNCHANGED <<gridVars, csv_rows, callVars,
                   total_points, start_max_iterations, results, max_iterations,
                   unescape_indices, submit_i, batch_results, apply_i, newly_escaped,
                   error, task_queue, unfinished_tasks, result_queue,
                   threadVars, workerVars, histVars>>

\* Lines 286-287, one pass: self.task_queue.put(None)
MainClosePut ==
    /\ pcMain = "close_put"
    /\ task_queue' = Append(task_queue, NoTask)
    /\ unfinished_tasks' = unfinished_tasks + 1
    /\ IF close_i = NumWorkers
       THEN pcMain' = "close_join" /\ close_i' = 1
       ELSE pcMain' = "close_put" /\ close_i' = close_i + 1
    /\ UNCHANGED <<gridVars, csv_rows, callVars,
                   total_points, start_max_iterations, results, max_iterations,
                   unescape_indices, submit_i, batch_results, apply_i, newly_escaped,
                   error, result_queue, running, threadVars, workerVars, histVars>>

\* Lines 290-291, one pass: thread.join() returns once the thread has ended.
MainCloseJoin ==
    /\ pcMain = "close_join"
    /\ tpc[close_i] = "exit"
    /\ IF close_i = NumWorkers
       THEN pcMain' = "close_workers" /\ close_i' = 1
       ELSE pcMain' = "close_join" /\ close_i' = close_i + 1
    /\ UNCHANGED <<gridVars, csv_rows, callVars,
                   total_points, start_max_iterations, results, max_iterations,
                   unescape_indices, submit_i, batch_results, apply_i, newly_escaped,
                   error, poolVars, threadVars, workerVars, histVars>>

\* MandelbrotWorker.close, lines 215-218, for worker close_i: take the lock;
\* self.process and self.process.stdin are objects, so the test passes
\* whether or not the process lives; write "EXIT\n" and flush.  On the pipe
\* of a process that has exited the write raises BrokenPipeError, which
\* nothing between here and the top of the program catches.
MainWorkerClose ==
    LET w == close_i IN
    /\ pcMain = "close_workers"
    /\ LockAvailable(w)
    /\ IF proc[w] = "exited"
       THEN /\ error' = "BrokenPipeError"
            /\ pcMain' = "aborted"
            /\ closed' = [closed EXCEPT ![w] = "raised"]
            /\ UNCHANGED <<lock, stdin, exit_sent>>
       ELSE /\ lock' = [lock EXCEPT ![w] = @ \cup {MainThread}]
            /\ stdin' = [stdin EXCEPT ![w] = Append(@, ExitLine(MainThread))]
            /\ exit_sent' = [exit_sent EXCEPT ![w] = @ + 1]
            /\ pcMain' = "close_wait"
            /\ UNCHANGED <<error, closed>>
    /\ UNCHANGED <<gridVars, csv_rows, callVars,
                   total_points, start_max_iterations, results, max_iterations,
                   unescape_indices, submit_i, batch_results, apply_i, newly_escaped,
                   close_i, poolVars, threadVars, proc, stdout,
                   faults, rounds, submitted, taken, produced, before>>

\* MandelbrotWorker.close, line 219: self.process.wait(), then the lock is
\* released and pool.close goes on to the next worker, or returns.
MainWorkerWait ==
    LET w == close_i IN
    /\ pcMain = "close_wait"
    /\ proc[w] = "exited"
    /\ lock' = [lock EXCEPT ![w] = @ \ {MainThread}]
    /\ closed' = [closed EXCEPT ![w] = "ok"]
    /\ IF close_i = NumWorkers
       THEN pcMain' = "write" /\ close_i' = 1
       ELSE pcMain' = "close_workers" /\ close_i' = close_i + 1
    /\ UNCHANGED <<gridVars, csv_rows, callVars,
                   total_points, start_max_iterations, results, max_iterations,
                   unescape_indices, submit_i, batch_results, apply_i, newly_escaped,
                   error, poolVars, threadVars, proc, stdin, stdout,
                   faults, rounds, submitted, taken, produced, before, exit_sent>>

\* Lines 423-441: one row per point; r['final_za'] raises KeyError for a
\* point no result was ever applied to.
MainWrite ==
    LET k == FirstMissing(results, total_points) IN
    /\ pcMain = "write"
    /\ csv_rows' = RowsWritten(results, k)
    /\ IF k = total_points
       THEN pcMain' = "done" /\ error' = error
       ELSE pcMain' = "aborted" /\ error' = "KeyError"
    /\ UNCHANGED <<gridVars, callVars,
                   total_points, start_max_iterations, results, max_iterations,
                   unescape_indices, submit_i, batch_results, apply_i, newly_escaped,
                   close_i, poolVars, threadVars, workerVars, histVars>>

MainStep ==
    \/ MainSelect
    \/ MainSubmit
    \/ MainWait
    \/ MainGetResults
    \/ MainApply
    \/ MainDecide
    \/ MainClose
    \/ MainClosePut
    \/ MainCloseJoin
    \/ MainWorkerClose
    \/ MainWorkerWait
    \/ MainWrite

\* ---------------------------------------------------------- specifications
\* A run of calculate_mandelbrot_grid from the entry of the adaptive loop.
Next ==
    \/ MainSelect
    \/ MainSubmit
    \/ MainWait
    \/ MainGetResults
    \/ MainApply
    \/ MainDecide
    \/ MainClose
    \/ MainClosePut
    \/ MainCloseJoin
    \/ MainWorkerClose
    \/ MainWorkerWait
    \/ MainWrite
    \/ \E t \in Threads : ThreadLoop(t)
    \/ \E t \in Threads : ThreadGet(t)
    \/ \E t \in Threads : CalcSend(t)
    \/ \E t \in Threads : CalcRecv(t)
    \/ \E t \in Threads : ThreadPut(t)
    \/ \E t \in Threads : ThreadTaskDone(t)
    \/ \E t \in Threads : ThreadExcept(t)
    \/ \E w \in Workers : BackendAnswer(w)
    \/ \E w \in Workers : BackendGarble(w)
    \/ \E w \in Workers : BackendExit(w)
    \/ \E w \in Workers : Crash(w)

Spec == Init /\ [][Next]_vars

\* The same run with a back-end that answers every request with a
\* well-formed response and exits only when told to, under fair scheduling
\* of the main thread, of every dispatch thread and of every back-end.
NextGood ==
    \/ MainSelect
    \/ MainSubmit
    \/ MainWait
    \/ MainGetResults
    \/ MainApply
    \/ MainDecide
    \/ MainClose
    \/ MainClosePut
    \/ MainCloseJoin
    \/ MainWorkerClose
    \/ MainWorkerWait
    \/ MainWrite
    \/ \E t \in Threads : ThreadLoop(t)
    \/ \E t \in Threads : ThreadGet(t)
    \/ \E t \in Threads : CalcSend(t)
    \/ \E t \in Threads : CalcRecv(t)
    \/ \E t \in Threads : ThreadPut(t)
    \/ \E t \in Threads : ThreadTaskDone(t)
    \/ \E w \in Workers : BackendAnswer(w)
    \/ \E w \in Workers : BackendExit(w)

GoodThreadStep(t) ==
    \/ ThreadLoop(t)
    \/ ThreadGet(t)
    \/ CalcSend(t)
    \/ CalcRecv(t)
    \/ ThreadPut(t)
    \/ ThreadTaskDone(t)

LiveSpec ==
    /\ Init
    /\ [][NextGood]_vars
    /\ WF_vars(MainStep)
    /\ \A t \in Threads : WF_vars(GoodThreadStep(t))
    /\ \A w \in Workers : WF_vars(BackendAnswer(w) \/ BackendExit(w))

\* A run in which the back-end may fail (a malformed line, a process that
\* exits on its own), under fair scheduling: the main thread and every
\* dispatch thread go on running, and a back-end process that is alive goes
\* on serving the lines it is sent.  No failure is ever forced to happen.
FairSpec ==
    /\ Init
    /\ [][Next]_vars
    /\ WF_vars(MainStep)
    /\ \A t \in Threads : WF_vars(ThreadStep(t))
    /\ \A w \in Workers : WF_vars(BackendAnswer(w) \/ BackendExit(w))

\* One MandelbrotWorker used by several threads at once: every caller is
\* bound to worker 1 and calls calculate again and again.
ClientTasks == {TaskFor(idx, NewPoint(idx), n) : idx \in 0..(MaxPoints - 1), n \in {1, 3}}

\* No grid, no pool at work: the program before calculate_mandelbrot_grid.
Idle ==
    /\ resolution_ca = 0
    /\ resolution_cb = 0
    /\ total_points = 0
    /\ start_max_iterations = 0
    /\ max_iterations = 0
    /\ results = [idx \in {} |-> NewPoint(idx)]
    /\ before = results
    /\ pcMain = "idle"
    /\ tpc = [t \in Threads |-> "idle"]
    /\ worker = [t \in Threads |-> 1]
    /\ InitRest

WorkerInit == Idle /\ NoCall

\* A caller enters worker.calculate with some task's arguments.
ClientCall(t) ==
    /\ tpc[t] = "idle"
    /\ \E tk \in ClientTasks : task' = [task EXCEPT ![t] = tk]
    /\ tpc' = [tpc EXCEPT ![t] = "calc"]
    /\ UNCHANGED <<mainVars, poolVars, worker, response, result, workerVars, histVars>>

\* calculate has returned its dict, or raised, and the caller goes on.
ClientReturn(t) ==
    /\ tpc[t] \in {"put", "except"}
    /\ tpc' = [tpc EXCEPT ![t] = "idle"]
    /\ task' = [task EXCEPT ![t] = NoTask]
    /\ response' = [response EXCEPT ![t] = EofLine]
    /\ result' = [result EXCEPT ![t] = NoResult]
    /\ UNCHANGED <<mainVars, poolVars, worker, workerVars, histVars>>

WorkerNext ==
    \/ \E t \in Threads : ClientCall(t)
    \/ \E t \in Threads : CalcSend(t)
    \/ \E t \in Threads : CalcRecv(t)
    \/ \E t \in Threads : ClientReturn(t)
    \/ \E w \in Workers : BackendAnswer(w)
    \/ \E w \in Workers : BackendGarble(w)
    \/ \E w \in Workers : Crash(w)

WorkerSpec == WorkerInit /\ [][WorkerNext]_vars

\* The update loop of lines 382-395 run on a batch that holds one result
\* twice (a duplicate delivery, which the pool itself never produces).
DupInit ==
    /\ resolution_ca \in 1..MaxPoints
    /\ resolution_cb = 1
    /\ total_points = resolution_ca
    /\ csv_rows = <<>>
    /\ fn = "none"
    /\ args = <<>>
    /\ ret = <<>>
    /\ \E idx \in Points, p \in 0..MaxDupIterations, c \in 1..MaxDupIterations,
          flag \in {"N", "Y"} :
          LET r == [escaped |-> flag, final_za |-> p + c, final_zb |-> p + c,
                    iterations |-> c, idx |-> idx, ca |-> idx, cb |-> idx]
          IN  /\ results = [i \in Points |->
                               IF i = idx
                               THEN [GridPoint(i, [x |-> i, y |-> 0])
                                        EXCEPT !.iterations = p, !.za = p, !.zb = p]
                               ELSE GridPoint(i, [x |-> i, y |-> 0])]
              /\ batch_results = <<r, r>>
              /\ unescape_indices = <<idx>>
              /\ start_max_iterations = p + c
    /\ max_iterations = start_max_iterations
    /\ before = results
    /\ pcMain = "apply"
    /\ apply_i = 1
    /\ submit_i = 1
    /\ newly_escaped = 0
    /\ close_i = 1
    /\ error = "none"
    /\ task_queue = <<>>
    /\ unfinished_tasks = 0
    /\ result_queue = <<>>
    /\ running = TRUE
    /\ tpc = [t \in Threads |-> "loop"]
    /\ worker = [t \in Threads |-> t]
    /\ task = [t \in Threads |-> NoTask]
    /\ response = [t \in Threads |-> EofLine]
    /\ result = [t \in Threads |-> NoResult]
    /\ lock = [w \in Workers |-> {}]
    /\ proc = [w \in Workers |-> "alive"]
    /\ stdin = [w \in Workers |-> <<>>]
    /\ stdout = [w \in Workers |-> <<>>]
    /\ faults = 0
    /\ rounds = 1
    /\ submitted = Zeros
    /\ taken = Zeros
    /\ produced = Zeros
    /\ exit_sent = [w \in Workers |-> 0]
    /\ closed = [w \in Workers |-> "no"]

DupNext == MainApply

DupSpec == DupInit /\ [][DupNext]_vars

\* The end of the first round of a run over a large grid, line 397: every
\* point was in the working set and its result has been applied.  The
\* first e points escaped at their first iteration, the others ran the
\* whole budget.  Grid sizes on both sides of 100 and of 200 points, and
\* starting budgets that no second round follows.
LargeGrids == {100, 101, MaxGrid - 1, MaxGrid}
LargeGridBudgets == {s \in StartBudgets : s * 2 > max_total_iterations}

RoundResult(idx, flag, c) ==
    [escaped |-> flag, final_za |-> c, final_zb |-> c, iterations |-> c,
     idx |-> idx, ca |-> idx, cb |-> idx]

LargeGridInit ==
    /\ resolution_ca \in LargeGrids
    /\ resolution_cb = 1
    /\ total_points = resolution_ca
    /\ start_max_iterations \in LargeGridBudgets
    /\ max_iterations = start_max_iterations
    /\ before = [idx \in Points |-> GridPoint(idx, [x |-> idx, y |-> 0])]
    /\ unescape_indices = [k \in 1..total_points |-> k - 1]
    /\ \E e \in 0..3 :
           /\ batch_results = [k \in 1..total_points |->
                                  IF k <= e THEN RoundResult(k - 1, "Y", 1)
                                  ELSE RoundResult(k - 1, "N", max_iterations)]
           /\ newly_escaped = e
    /\ results = [idx \in Points |-> ApplyResult(before[idx], batch_results[idx + 1])]
    /\ pcMain = "decide"
    /\ submit_i = 1
    /\ apply_i = 1
    /\ close_i = 1
    /\ error = "none"
    /\ csv_rows = <<>>
    /\ task_queue = <<>>
    /\ unfinished_tasks = 0
    /\ result_queue = <<>>
    /\ running = TRUE
    /\ tpc = [t \in Threads |-> "loop"]
    /\ worker = [t \in Threads |-> t]
    /\ task = [t \in Threads |-> NoTask]
    /\ response = [t \in Threads |-> EofLine]
    /\ result = [t \in Threads |-> NoResult]
    /\ lock = [w \in Workers |-> {}]
    /\ proc = [w \in Workers |-> "alive"]
    /\ stdin = [w \in Workers |-> <<>>]
    /\ stdout = [w \in Workers |-> <<>>]
    /\ faults = 0
    /\ rounds = 1
    /\ submitted = [idx \in 0..(MaxPoints - 1) |-> 1]
    /\ taken = [idx \in 0..(MaxPoints - 1) |-> 1]
    /\ produced = [idx \in 0..(MaxPoints - 1) |-> 1]
    /\ exit_sent = [w \in Workers |-> 0]
    /\ closed = [w \in Workers |-> "no"]
    /\ NoCall

\* A run from the entry of the adaptive loop, or from the end of the first
\* round over a large grid.
LoopSpec == (Init \/ LargeGridInit) /\ [][Next]_vars

\* ---------------------------------------------------------------- numbers
\* gmpy2's mpfr and Python's Decimal are floating-point numbers of many
\* digits.  A natural number is written here as the sequence of its digits
\* in base B, least significant first and without high zeros (<<>> is 0);
\* B is 2 for mpfr and 10 for Decimal.
DigitAt(n, i) == IF i <= Len(n) THEN n[i] ELSE 0

\* F(v): a local variable of the source, assigned v and then used in F.
With(v, F(_)) == F(v)

\* The operations below work through the digits lo..hi of their operands by
\* halves, the low half first where a carry goes up and the high half first
\* where a remainder comes down.

\* The highest position in lo..hi where a and b differ, 0 when there is none.
RECURSIVE HighDiff(_, _, _, _)
HighDiff(a, b, lo, hi) ==
    IF lo > hi THEN 0
    ELSE IF lo = hi THEN (IF DigitAt(a, lo) # DigitAt(b, lo) THEN lo ELSE 0)
    ELSE LET mid == (lo + hi) \div 2
             h == HighDiff(a, b, mid + 1, hi)
         IN  IF h # 0 THEN h ELSE HighDiff(a, b, lo, mid)

\* The lowest position in lo..hi where n has a nonzero digit, 0 when none.
RECURSIVE LowNonzero(_, _, _)
LowNonzero(n, lo, hi) ==
    IF lo > hi THEN 0
    ELSE IF lo = hi THEN (IF n[lo] # 0 THEN lo ELSE 0)
    ELSE LET mid == (lo + hi) \div 2
             l == LowNonzero(n, lo, mid)
         IN  IF l # 0 THEN l ELSE LowNonzero(n, mid + 1, hi)

NTrim(n) == SubSeq(n, 1, HighDiff(n, <<>>, 1, Len(n)))

RECURSIVE NFromInt(_, _)
NFromInt(k, B) == IF k = 0 THEN <<>> ELSE <<k % B>> \o NFromInt(k \div B, B)

RECURSIVE NToIntFrom(_, _, _)
NToIntFrom(n, i, B) == IF i > Len(n) THEN 0 ELSE n[i] + B * NToIntFrom(n, i + 1, B)
\* The machine integer a short n stands for.
NToInt(n, B) == NToIntFrom(n, 1, B)

\* Digits lo..hi of ka * a + kb * b + c, and the carry out of them (ka and
\* kb machine integers, c the carry in).
RECURSIVE NLinRange(_, _, _, _, _, _, _, _)
NLinRange(a, b, ka, kb, lo, hi, c, B) ==
    IF lo > hi THEN [d |-> <<>>, c |-> c]
    ELSE IF lo = hi
    THEN LET t == ka * DigitAt(a, lo) + kb * DigitAt(b, lo) + c
         IN  [d |-> <<t % B>>, c |-> t \div B]
    ELSE LET mid == (lo + hi) \div 2
             L == NLinRange(a, b, ka, kb, lo, mid, c, B)
             H == NLinRange(a, b, ka, kb, mid + 1, hi, L.c, B)
         IN  [d |-> L.d \o H.d, c |-> H.c]
\* ka * a + kb * b, which the caller knows not to be negative.
NLin(a, b, ka, kb, B) ==
    LET hi == IF Len(a) > Len(b) THEN Len(a) ELSE Len(b)
        r == NLinRange(a, b, ka, kb, 1, hi, 0, B)
    IN  NTrim(r.d \o NFromInt(r.c, B))

NAdd(a, b, B) == NLin(a, b, 1, 1, B)
\* a - b for a >= b.
NSub(a, b, B) == NLin(a, b, 1, -1, B)
\* a * k for a machine integer k >= 0.
NMulSmall(a, k, B) == NLin(a, <<>>, k, 0, B)

\* -1, 0 or 1 as a < b, a = b or a > b.
NCmp(a, b) ==
    LET hi == IF Len(a) > Len(b) THEN Len(a) ELSE Len(b)
        h == HighDiff(a, b, 1, hi)
    IN  IF h = 0 THEN 0 ELSE IF DigitAt(a, h) < DigitAt(b, h) THEN -1 ELSE 1

\* a * B^k and a \div B^k.
NShiftUp(a, k) == IF a = <<>> THEN <<>> ELSE [i \in 1..(Len(a) + k) |-> IF i <= k THEN 0 ELSE a[i - k]]
NShiftDown(a, k) == IF k >= Len(a) THEN <<>> ELSE SubSeq(a, k + 1, Len(a))

Reverse(q) == [i \in 1..Len(q) |-> q[Len(q) + 1 - i]]

\* Long division of the digits hi..lo of a by a machine integer k > 0, with
\* the remainder r of the digits above coming in: the quotient digits, the
\* highest first, and the remainder going out.
RECURSIVE NDivSmallRange(_, _, _, _, _, _)
NDivSmallRange(a, k, lo, hi, r, B) ==
    IF lo > hi THEN [q |-> <<>>, r |-> r]
    ELSE IF lo = hi
    THEN LET cur == r * B + a[lo] IN [q |-> <<cur \div k>>, r |-> cur % k]
    ELSE LET mid == (lo + hi) \div 2
             H == NDivSmallRange(a, k, mid + 1, hi, r, B)
             L == NDivSmallRange(a, k, lo, mid, H.r, B)
         IN  [q |-> H.q \o L.q, r |-> L.r]
NDivSmall(a, k, B) ==
    LET d == NDivSmallRange(a, k, 1, Len(a), 0, B) IN [q |-> NTrim(Reverse(d.q)), r |-> d.r]

\* How many times b goes into r (fewer than B times).
RECURSIVE NCount(_, _, _)
NCount(r, b, B) ==
    IF NCmp(r, b) < 0 THEN [d |-> 0, r |-> r]
    ELSE LET rest == NCount(NSub(r, b, B), b, B) IN [d |-> rest.d + 1, r |-> rest.r]

\* Long division of the digits hi..lo of a by b > 0, in the same way.
RECURSIVE NDivRange(_, _, _, _, _, _)
NDivRange(a, b, lo, hi, r, B) ==
    IF lo > hi THEN [q |-> <<>>, r |-> r]
    ELSE IF lo = hi
    THEN LET c == NCount(NTrim(<<a[lo]>> \o r), b, B) IN [q |-> <<c.d>>, r |-> c.r]
    ELSE LET mid == (lo + hi) \div 2
             H == NDivRange(a, b, mid + 1, hi, r, B)
             L == NDivRange(a, b, lo, mid, H.r, B)
         IN  [q |-> H.q \o L.q, r |-> L.r]
NDiv(a, b, B) ==
    LET d == NDivRange(a, b, 1, Len(a), <<>>, B) IN [q |-> NTrim(Reverse(d.q)), r |-> d.r]

\* A floating-point number is [s, n, e]: sign s (1 or -1), digits n, and the
\* exponent e of the lowest digit; its value is s * n * B^e.  Zero is FZero.
FZero == [s |-> 1, n |-> <<>>, e |-> 0]

\* The one way of writing a value: no high zeros, no low zeros.
FNorm(x) ==
    LET n == NTrim(x.n)
        z == LowNonzero(n, 1, Len(n)) - 1
    IN  IF n = <<>> THEN FZero ELSE [s |-> x.s, n |-> NShiftDown(n, z), e |-> x.e + z]

\* x rounded to prec digits, to nearest, ties to the even digit (MPFR's
\* MPFR_RNDN, Decimal's ROUND_HALF_EVEN).
FRound(x, prec, B) ==
    LET n == NTrim(x.n)
        k == Len(n) - prec
    IN  IF k <= 0 THEN FNorm(x)
        ELSE LET kept == NShiftDown(n, k)
                 d == n[k]
                 sticky == LowNonzero(n, 1, k - 1) # 0
                 up == \/ 2 * d > B
                       \/ 2 * d = B /\ (sticky \/ kept[1] % 2 = 1)
                 m == IF up THEN NAdd(kept, <<1>>, B) ELSE kept
             IN  FNorm([s |-> x.s, n |-> m, e |-> x.e + k])

FNeg(x) == IF x.n = <<>> THEN x ELSE [x EXCEPT !.s = -x.s]
FAbs(x) == [x EXCEPT !.s = 1]
FIsZero(x) == NTrim(x.n) = <<>>

\* The exact sum.
FSum(x, y, B) ==
    IF FIsZero(x) THEN FNorm(y)
    ELSE IF FIsZero(y) THEN FNorm(x)
    ELSE LET e0 == IF x.e < y.e THEN x.e ELSE y.e
             a == NShiftUp(NTrim(x.n), x.e - e0)
             b == NShiftUp(NTrim(y.n), y.e - e0)
             c == NCmp(a, b)
         IN  IF x.s = y.s THEN FNorm([s |-> x.s, n |-> NAdd(a, b, B), e |-> e0])
             ELSE IF c = 0 THEN FZero
             ELSE IF c > 0 THEN FNorm([s |-> x.s, n |-> NSub(a, b, B), e |-> e0])
             ELSE FNorm([s |-> y.s, n |-> NSub(b, a, B), e |-> e0])

\* -1, 0 or 1 as x < y, x = y or x > y.
FCmp(x, y, B) ==
    LET d == FSum(x, FNeg(y), B) IN IF FIsZero(d) THEN 0 ELSE d.s

\* x + y, x - y, x * k and x / k (k a machine integer), x / y: the exact
\* result rounded to prec digits.
FAdd(x, y, prec, B) == FRound(FSum(x, y, B), prec, B)
FSub(x, y, prec, B) == FRound(FSum(x, FNeg(y), B), prec, B)
FMulSmall(x, k, prec, B) ==
    IF k = 0 THEN FZero
    ELSE IF k > 0 THEN FRound([x EXCEPT !.n = NMulSmall(x.n, k, B)], prec, B)
    ELSE FRound([x EXCEPT !.n = NMulSmall(x.n, -k, B), !.s = -x.s], prec, B)

\* A quotient cut off below the digits that rounding to prec looks at: when
\* the division leaves a remainder, the lowest digit is made nonzero.
Sticky(q, remainder) ==
    IF remainder /\ q # <<>> /\ q[1] = 0 THEN [q EXCEPT ![1] = 1] ELSE q

FDivSmall(x, k, prec, B) ==
    IF FIsZero(x) THEN FZero
    ELSE LET g == prec + Len(NFromInt(k, B)) + 2
             d == NDivSmall(NShiftUp(NTrim(x.n), g), k, B)
         IN  FRound([s |-> x.s, n |-> Sticky(d.q, d.r # 0), e |-> x.e - g], prec, B)

FDiv(x, y, prec, B) ==
    IF FIsZero(x) THEN FZero
    ELSE LET g == prec + Len(NTrim(y.n)) + 2
             d == NDiv(NShiftUp(NTrim(x.n), g), NTrim(y.n), B)
         IN  FRound([s |-> x.s * y.s, n |-> Sticky(d.q, d.r # <<>>), e |-> x.e - y.e - g],
                    prec, B)

\* ------------------------------------------------------ the numeral codec
\* A text is a sequence of one-character strings.  Alphabet36 lists the
\* characters that are letters or digits (str.isalnum), in the order of
\* their values; the first 32 are the base-32 digits.
Alphabet36 ==
    <<"0", "1", "2", "3", "4", "5", "6", "7", "8", "9",
      "a", "b", "c", "d", "e", "f", "g", "h", "i", "j", "k", "l", "m",
      "n", "o", "p", "q", "r", "s", "t", "u", "v", "w", "x", "y", "z">>
IsAlnum(ch) == \E d \in 1..36 : Alphabet36[d] = ch
IndexOf(ch) == (CHOOSE d \in 1..36 : Alphabet36[d] = ch) - 1
IsDigit32(ch) == IsAlnum(ch) /\ IndexOf(ch) < 32
IsDigit10(ch) == IsAlnum(ch) /\ IndexOf(ch) < 10
DigitChar(d) == Alphabet36[d + 1]

ZeroText(k) == [i \in 1..k |-> "0"]
Positions(s, ch) == {i \in 1..Len(s) : s[i] = ch}
Without(s, ch) == SelectSeq(s, LAMBDA c : c # ch)

\* The highest position in lo..hi where s has another character than ch,
\* 0 when there is none.
RECURSIVE HighNot(_, _, _, _)
HighNot(s, ch, lo, hi) ==
    IF lo > hi THEN 0
    ELSE IF lo = hi THEN (IF s[lo] # ch THEN lo ELSE 0)
    ELSE LET mid == (lo + hi) \div 2
             h == HighNot(s, ch, mid + 1, hi)
         IN  IF h # 0 THEN h ELSE HighNot(s, ch, lo, mid)
\* s.rstrip(ch)
RStrip(s, ch) == SubSeq(s, 1, HighNot(s, ch, 1, Len(s)))

\* The number a run of decimal digits stands for (short runs only).
RECURSIVE DecimalValue(_)
DecimalValue(s) ==
    IF s = <<>> THEN 0 ELSE 10 * DecimalValue(SubSeq(s, 1, Len(s) - 1)) + IndexOf(s[Len(s)])

\* int(text) of Python, and MPFR's reading of an exponent: an optional
\* sign and at least one decimal digit.
IsDecimalInt(s) ==
    LET body == IF s # <<>> /\ s[1] \in {"-", "+"} THEN Tail(s) ELSE s
    IN  body # <<>> /\ \A i \in 1..Len(body) : IsDigit10(body[i])
IntOf(s) ==
    IF s[1] = "-" THEN -DecimalValue(Tail(s))
    ELSE IF s[1] = "+" THEN DecimalValue(Tail(s))
    ELSE DecimalValue(s)

\* The digits of a natural number in base 2, lowest first, from its
\* base-32 digits ds, highest first: five bits for each.
BitsOf(ds, value(_)) ==
    [k \in 1..(5 * Len(ds)) |->
        (value(ds[Len(ds) - (k - 1) \div 5]) \div (2 ^ ((k - 1) % 5))) % 2]
\* The digits in base 32, lowest first, of a number given in base 2.
Base32Of(bits) ==
    NTrim([i \in 1..((Len(bits) + 4) \div 5) |->
              DigitAt(bits, 5 * i - 4) + 2 * DigitAt(bits, 5 * i - 3)
              + 4 * DigitAt(bits, 5 * i - 2) + 8 * DigitAt(bits, 5 * i - 1)
              + 16 * DigitAt(bits, 5 * i)])

\* What a decoder or an encoder does: it returns a value or raises.
Returned(v) == [error |-> "none", value |-> v]
Raised(e) == [error |-> e, value |-> FZero]

\* ---- py_common/mpfr_base32.py: the codec on gmpy2
\* The split MPFR makes of a text in base 32: sign, mantissa, exponent.
SignOf(s) == IF s # <<>> /\ s[1] = "-" THEN -1 ELSE 1
Unsigned(s) == IF s # <<>> /\ s[1] \in {"-", "+"} THEN Tail(s) ELSE s
HasExponent(s) == Positions(s, "@") # {}
FirstAt(s) == CHOOSE i \in Positions(s, "@") : \A j \in Positions(s, "@") : i <= j
MantissaText(s) == IF HasExponent(s) THEN SubSeq(s, 1, FirstAt(s) - 1) ELSE s
ExponentText(s) == IF HasExponent(s) THEN SubSeq(s, FirstAt(s) + 1, Len(s)) ELSE <<>>
FractionLen(m) ==
    IF Positions(m, ".") = {} THEN 0 ELSE Len(m) - (CHOOSE i \in Positions(m, ".") : TRUE)

\* mpfr(s, base=32) takes the whole text or nothing: digits 0-9a-v with at
\* most one radix point and at least one digit, then maybe '@' and a decimal
\* exponent.
WellFormed(s) ==
    LET body == Unsigned(s)
        m == MantissaText(body)
        ds == Without(m, ".")
    IN  /\ Cardinality(Positions(m, ".")) <= 1
        /\ ds # <<>>
        /\ \A i \in 1..Len(ds) : IsDigit32(ds[i])
        /\ HasExponent(body) => IsDecimalInt(ExponentText(body))

\* The number a well-formed text stands for, exactly.
TextValue(s, value(_)) ==
    LET body == Unsigned(s)
        m == MantissaText(body)
        x == IF HasExponent(body) THEN IntOf(ExponentText(body)) ELSE 0
    IN  FNorm([s |-> SignOf(s), n |-> BitsOf(Without(m, "."), value),
               e |-> 5 * (x - FractionLen(m))])

\* parse_mpfr_base32(s, precision) of py_common, lines 34-59.
parse_mpfr_base32(s, precision) ==
    IF WellFormed(s) THEN Returned(FRound(TextValue(s, IndexOf), precision, 2))
    ELSE Raised("ValueError")

\* value.digits(32, n): the value rounded to n digits in base 32, as the
\* digits (lowest first, the spare low places cut off) and the exponent, the
\* number of digits before the radix point.
Digits32(value, n) ==
    LET r == value.e % 5
        x == [s |-> value.s, n |-> Base32Of(NShiftUp(value.n, r)), e |-> (value.e - r) \div 5]
    IN  With(FRound(x, n, 32), LAMBDA y : [n |-> y.n, exp |-> Len(y.n) + y.e])
\* The mantissa text digits() returns: n characters, highest digit first.
MantissaStr(ds, n) ==
    [i \in 1..n |-> IF i <= Len(ds) THEN DigitChar(ds[Len(ds) + 1 - i]) ELSE "0"]

\* remove_trailing_zeros, lines 13-31.
remove_trailing_zeros(s) ==
    IF Positions(s, ".") = {} THEN s ELSE RStrip(RStrip(s, "0"), ".")

\* mpfr_to_base32(value, precision_digits), lines 62-113.
mpfr_to_base32(value, precision_digits) ==
    IF FIsZero(value) THEN <<"0">>
    ELSE With(Digits32(value, precision_digits), LAMBDA d :
         With(MantissaStr(d.n, precision_digits), LAMBDA mantissa_str :
             LET mantissa_len == Len(mantissa_str)
                 sign == IF value.s < 0 THEN <<"-">> ELSE <<>>
                 text ==
                     IF d.exp > 0
                     THEN IF d.exp >= mantissa_len
                          THEN mantissa_str \o ZeroText(d.exp - mantissa_len)
                          ELSE SubSeq(mantissa_str, 1, d.exp) \o <<".">>
                               \o SubSeq(mantissa_str, d.exp + 1, mantissa_len)
                     ELSE IF d.exp = 0 THEN <<"0", ".">> \o mantissa_str
                     ELSE <<"0", ".">> \o ZeroText(-d.exp) \o mantissa_str
             IN  remove_trailing_zeros(sign \o text)))

\* math.ceil(precision_bits * math.log(2) / math.log(32)) + 1, line 137.
PrecisionDigits(precision_bits) == (precision_bits + 4) \div 5 + 1

\* decimal_to_mpfr_base32(d, precision_bits), lines 116-139; d is an mpfr,
\* or else a number whose text mpfr() reads at precision_bits.
decimal_to_mpfr_base32(d, is_mpfr, precision_bits) ==
    LET value == IF is_mpfr THEN d ELSE FRound(d, precision_bits, 2)
    IN  mpfr_to_base32(value, PrecisionDigits(precision_bits))

\* ---- py_box_cal/mpfr_base32.py: the codec on Python's Decimal
\* getcontext().prec = 100: every result of Decimal arithmetic is rounded to
\* 100 significant digits.
DecimalPrec == 100

\* a * b and b^k for numbers of any length.
RECURSIVE NMulRange(_, _, _, _, _)
NMulRange(a, b, lo, hi, B) ==
    IF lo > hi THEN <<>>
    ELSE IF lo = hi THEN NShiftUp(NMulSmall(a, b[lo], B), lo - 1)
    ELSE LET mid == (lo + hi) \div 2
         IN  NAdd(NMulRange(a, b, lo, mid, B), NMulRange(a, b, mid + 1, hi, B), B)
NMul(a, b, B) == IF Len(a) = 0 \/ Len(b) = 0 THEN <<>> ELSE NMulRange(a, b, 1, Len(b), B)
RECURSIVE NPow(_, _, _)
NPow(b, k, B) ==
    IF k = 0 THEN <<1>>
    ELSE IF k = 1 THEN NFromInt(b, B)
    ELSE LET half == NPow(b, k \div 2, B)
             rest == IF k % 2 = 0 THEN half ELSE NMulSmall(half, b, B)
         IN  IF Len(half) = 0 \/ Len(rest) = 0 THEN <<>> ELSE NMul(half, rest, B)

Dec(k) == IF k < 0 THEN [s |-> -1, n |-> NFromInt(-k, 10), e |-> 0]
          ELSE FNorm([s |-> 1, n |-> NFromInt(k, 10), e |-> 0])
DecAdd(x, y) == FAdd(x, y, DecimalPrec, 10)
DecSub(x, y) == FSub(x, y, DecimalPrec, 10)
DecMul(x, y) ==
    FRound([s |-> x.s * y.s, n |-> NMul(x.n, y.n, 10), e |-> x.e + y.e], DecimalPrec, 10)
DecDiv(x, y) == FDiv(x, y, DecimalPrec, 10)
\* Decimal(32) ** p: 32^p, and 3125^-p / 10^(-5p) for a negative p, rounded.
DecPow32(p) ==
    IF p >= 0 THEN FRound([s |-> 1, n |-> NPow(32, p, 10), e |-> 0], DecimalPrec, 10)
    ELSE FRound([s |-> 1, n |-> NPow(3125, -p, 10), e |-> 5 * p], DecimalPrec, 10)
\* int(x) of a Decimal that is not too large for a machine integer.
DecInt(x) ==
    IF x.e >= 0 THEN x.s * NToInt(NShiftUp(x.n, x.e), 10)
    ELSE x.s * NToInt(NShiftDown(x.n, -x.e), 10)

\* ord(ch) of a lower-case letter, and of the characters that are neither
\* letters nor digits.
Ord(ch) ==
    IF IsAlnum(ch) THEN 97 + IndexOf(ch) - 10
    ELSE IF ch = "-" THEN 45 ELSE IF ch = "+" THEN 43 ELSE IF ch = "." THEN 46 ELSE 64
\* Lines 49-52 and 58-61: the value taken for a character of the mantissa.
digit_value(ch) == IF IsDigit10(ch) THEN IndexOf(ch) ELSE Ord(ch) - 97 + 10

\* e, with x worked out first.
After(x, e) == IF x = x THEN e ELSE e

\* Lines 47-53: the loop over the characters lo..hi of the integer part,
\* entered with integer_value = value (the passes taken by halves).
RECURSIVE IntegerLoop(_, _, _, _)
IntegerLoop(integer_part, lo, hi, value) ==
    IF lo > hi THEN value
    ELSE IF lo = hi
    THEN DecAdd(FMulSmall(value, 32, DecimalPrec, 10), Dec(digit_value(integer_part[lo])))
    ELSE LET mid == (lo + hi) \div 2
             low == IntegerLoop(integer_part, lo, mid, value)
         IN  After(low, IntegerLoop(integer_part, mid + 1, hi, low))
integer_value(integer_part) == IntegerLoop(integer_part, 1, Len(integer_part), FZero)

\* Lines 56-62: the loop over the characters lo..hi of the fractional part,
\* entered with fractional_value = value.
RECURSIVE FractionalLoop(_, _, _, _)
FractionalLoop(fractional_part, lo, hi, value) ==
    IF lo > hi THEN value
    ELSE IF lo = hi
    THEN DecAdd(value, DecMul(Dec(digit_value(fractional_part[lo])), DecPow32(-lo)))
    ELSE LET mid == (lo + hi) \div 2
             low == FractionalLoop(fractional_part, lo, mid, value)
         IN  After(low, FractionalLoop(fractional_part, mid + 1, hi, low))
fractional_value(fractional_part) ==
    FractionalLoop(fractional_part, 1, Len(fractional_part), FZero)

\* parse_mpfr_base32(s) of py_box_cal, lines 11-70.
Decimal_parse_mpfr_base32(text) ==
    LET sign == IF text # <<>> /\ text[1] = "-" THEN -1 ELSE 1
        s == IF sign = -1 THEN Tail(text) ELSE text
        ats == Positions(s, "@")
        mantissa_str == IF ats = {} THEN s ELSE SubSeq(s, 1, FirstAt(s) - 1)
        exp_str == IF ats = {} THEN <<>> ELSE SubSeq(s, FirstAt(s) + 1, Len(s))
        base_exponent == IF ats = {} THEN 0 ELSE IntOf(exp_str)
        dots == Positions(mantissa_str, ".")
        dot == IF dots = {} THEN Len(mantissa_str) + 1 ELSE CHOOSE i \in dots : TRUE
        integer_part == SubSeq(mantissa_str, 1, dot - 1)
        fractional_part == SubSeq(mantissa_str, dot + 1, Len(mantissa_str))
        Scaled(mantissa_value) ==
            IF base_exponent # 0 THEN DecMul(mantissa_value, DecPow32(base_exponent))
            ELSE mantissa_value
        Signed(scaled) == IF sign = -1 THEN FNeg(scaled) ELSE scaled
    IN  IF text = <<"0">> \/ text = <<"0", "@", "0">> THEN Returned(FZero)
        ELSE IF Cardinality(ats) > 1 THEN Raised("ValueError")
        ELSE IF ats # {} /\ ~IsDecimalInt(exp_str) THEN Raised("ValueError")
        ELSE IF Cardinality(dots) > 1 THEN Raised("ValueError")
        ELSE Returned(Signed(Scaled(DecAdd(integer_value(integer_part),
                                           fractional_value(fractional_part)))))

\* Lines 96-108: the number of base-32 digits before the radix point.
RECURSIVE ExpDown(_, _)
ExpDown(temp, exp) ==
    IF FCmp(temp, Dec(1), 10) >= 0
    THEN ExpDown(FDivSmall(temp, 32, DecimalPrec, 10), exp + 1)
    ELSE exp
RECURSIVE ExpUp(_, _)
ExpUp(temp, exp) ==
    IF FCmp(temp, Dec(1), 10) < 0
    THEN ExpUp(FMulSmall(temp, 32, DecimalPrec, 10), exp - 1)
    ELSE exp + 1

\* Lines 115-130: the passes lo..hi of the loop, entered with the given
\* value: the digits they append and the value they leave. A pass that finds
\* the value zero is one the break of line 130 has kept from running.
RECURSIVE DigitLoop(_, _, _, _)
DigitLoop(value, lo, hi, exp) ==
    IF lo > hi \/ FIsZero(value) THEN [digits |-> <<>>, value |-> value]
    ELSE IF lo = hi
    THEN With(DecPow32(exp - 1 - lo), LAMBDA scale :
         With(DecInt(DecDiv(value, scale)) % 32, LAMBDA digit :
             [digits |-> <<DigitChar(digit)>>,
              value |-> DecSub(value, FMulSmall(scale, digit, DecimalPrec, 10))]))
    ELSE With(DigitLoop(value, lo, (lo + hi) \div 2, exp), LAMBDA low :
         With(DigitLoop(low.value, (lo + hi) \div 2 + 1, hi, exp), LAMBDA high :
             [digits |-> low.digits \o high.digits, value |-> high.value]))

\* Lines 133-134: while len(digits) > 1 and digits[-1] == '0': digits.pop()
PopZeros(digits) ==
    LET kept == RStrip(digits, "0") IN IF kept = <<>> THEN SubSeq(digits, 1, 1) ELSE kept

\* decimal_to_mpfr_base32(d, precision) of py_box_cal, lines 73-156.
Decimal_decimal_to_mpfr_base32(d, precision) ==
    IF FIsZero(d) THEN <<"0">>
    ELSE With(FRound(FAbs(d), DecimalPrec, 10), LAMBDA a :
         With(IF FCmp(a, Dec(1), 10) >= 0 THEN ExpDown(a, 0) ELSE ExpUp(a, 0), LAMBDA exp :
         With(PopZeros(DigitLoop(a, 0, precision - 1, exp).digits), LAMBDA digits_str :
             LET sign == IF d.s < 0 THEN <<"-">> ELSE <<>>
                 integer_part == SubSeq(digits_str, 1, exp)
                 fractional_part == SubSeq(digits_str, exp + 1, Len(digits_str))
                 text ==
                     IF exp > 0
                     THEN IF exp >= Len(digits_str)
                          THEN digits_str \o ZeroText(exp - Len(digits_str))
                          ELSE IF fractional_part # <<>> /\ fractional_part # <<"0">>
                          THEN integer_part \o <<".">> \o fractional_part
                          ELSE integer_part
                     ELSE <<"0", ".">> \o ZeroText(-exp) \o digits_str
             IN  sign \o text)))

\* convert_10_to_32 of py_box_cal/base_convert.py, lines 15-42.
convert_10_to_32(value, precision_bits) ==
    Decimal_decimal_to_mpfr_base32(value, PrecisionDigits(precision_bits))

\* ------------------------------------------------------------ generate_grid
\* The precision of gmpy2's default context, in which the arithmetic of
\* box_calculator.py outside the codec is done, and the largest exponent of
\* a Python float.
ContextPrecision == 53
FloatMaxExp == 1024
FloatMinExp == -1074

\* float(x) of an mpfr x: x itself, infinity above the range of a double,
\* and fewer digits below 2^-1022.
FloatOf(x) ==
    LET top == Len(x.n) + x.e
        p == top - FloatMinExp
    IN  IF FIsZero(x) THEN [inf |-> FALSE, v |-> FZero]
        ELSE IF top > FloatMaxExp THEN [inf |-> TRUE, v |-> FZero]
        ELSE IF p >= ContextPrecision THEN [inf |-> FALSE, v |-> x]
        ELSE IF p >= 1 THEN [inf |-> FALSE, v |-> FRound(x, p, 2)]
        ELSE IF p = 0 /\ x.n # <<1>>
        THEN [inf |-> FALSE, v |-> [s |-> x.s, n |-> <<1>>, e |-> FloatMinExp]]
        ELSE [inf |-> FALSE, v |-> FZero]

\* round(x) of a float x that is not too large for a machine integer: the
\* nearest integer, the even one of two.
RoundOf(x) ==
    LET k == -x.e
        kept == NShiftDown(x.n, k)
        up == /\ k <= Len(x.n)
              /\ x.n[k] = 1
              /\ LowNonzero(x.n, 1, k - 1) # 0 \/ DigitAt(kept, 1) = 1
    IN  IF FIsZero(x) THEN 0
        ELSE IF k <= 0 THEN x.s * NToInt(NShiftUp(x.n, -k), 2)
        ELSE x.s * (NToInt(kept, 2) + (IF up THEN 1 ELSE 0))

\* _count_base32_digits, lines 28-34.
count_base32_digits(s) == Cardinality({i \in 1..Len(s) : IsAlnum(s[i])})

\* Lines 47-55 and 102-113: the precision the bounds are parsed at.
ParsePrecision(min_ca, max_ca, min_cb, max_cb) ==
    LET counts == {count_base32_digits(min_ca), count_base32_digits(max_ca),
                   count_base32_digits(min_cb), count_base32_digits(max_cb)}
        max_digits == CHOOSE c \in counts : \A d \in counts : d <= c
        estimated_bits == max_digits * 5
        precision == ((estimated_bits + 64 + 63) \div 64) * 64
    IN  IF precision < 64 THEN 64 ELSE precision

\* Lines 129-133: the resolution on the imaginary axis.
DerivedResolution(range_ca, range_cb, resolution) ==
    IF FIsZero(range_ca) THEN [error |-> "none", n |-> resolution]
    ELSE With(FloatOf(FDiv(range_cb, range_ca, ContextPrecision, 2)), LAMBDA aspect_ratio :
         With(FloatOf(FMulSmall(aspect_ratio.v, resolution, ContextPrecision, 2)), LAMBDA product :
             IF aspect_ratio.inf /\ resolution = 0 THEN [error |-> "ValueError", n |-> 0]
             ELSE IF aspect_ratio.inf \/ product.inf THEN [error |-> "OverflowError", n |-> 0]
             ELSE IF Len(product.v.n) + product.v.e > 20 THEN [error |-> "large", n |-> 0]
             ELSE With(RoundOf(product.v), LAMBDA rounded :
                      [error |-> "none", n |-> IF rounded < 1 THEN 1 ELSE rounded])))

\* Lines 139-153: sample i of resolution on one axis.
Sample(min_dec, max_dec, i, resolution) ==
    IF resolution > 1
    THEN FAdd(min_dec,
              FDivSmall(FMulSmall(FSub(max_dec, min_dec, ContextPrecision, 2),
                                  i, ContextPrecision, 2),
                        resolution, ContextPrecision, 2),
              ContextPrecision, 2)
    ELSE min_dec

\* Lines 102-133: the precision, the four bounds and the two resolutions.
GridFrame(min_ca, max_ca, min_cb, max_cb, resolution) ==
    LET precision == ParsePrecision(min_ca, max_ca, min_cb, max_cb)
    IN  With([min_ca_dec |-> parse_mpfr_base32(min_ca, precision),
              max_ca_dec |-> parse_mpfr_base32(max_ca, precision),
              min_cb_dec |-> parse_mpfr_base32(min_cb, precision),
              max_cb_dec |-> parse_mpfr_base32(max_cb, precision)], LAMBDA b :
        With(DerivedResolution(
                 FAbs(FSub(b.max_ca_dec.value, b.min_ca_dec.value, ContextPrecision, 2)),
                 FAbs(FSub(b.max_cb_dec.value, b.min_cb_dec.value, ContextPrecision, 2)),
                 resolution), LAMBDA derived :
            [error |-> IF \E name \in DOMAIN b : b[name].error # "none"
                       THEN "ValueError" ELSE derived.error,
             precision |-> precision,
             min_ca |-> b.min_ca_dec.value, max_ca |-> b.max_ca_dec.value,
             min_cb |-> b.min_cb_dec.value, max_cb |-> b.max_cb_dec.value,
             resolution_ca |-> resolution, resolution_cb |-> derived.n]))

\* generate_grid, lines 88-159.  Each tuple of the grid is written with the
\* two numbers ca and cb that its texts were made from.
generate_grid(min_ca, max_ca, min_cb, max_cb, resolution) ==
    With(GridFrame(min_ca, max_ca, min_cb, max_cb, resolution), LAMBDA f :
        LET Tuple(g) ==
                With(Sample(f.min_ca, f.max_ca, g.x, f.resolution_ca), LAMBDA ca :
                With(Sample(f.min_cb, f.max_cb, g.y, f.resolution_cb), LAMBDA cb :
                    [ca_str |-> decimal_to_mpfr_base32(ca, TRUE, f.precision),
                     cb_str |-> decimal_to_mpfr_base32(cb, TRUE, f.precision),
                     x |-> g.x, y |-> g.y, ca |-> ca, cb |-> cb]))
        IN  IF f.error # "none"
            THEN [error |-> f.error, grid |-> <<>>, resolution_ca |-> 0, resolution_cb |-> 0]
            ELSE With(GridLoop(0, 0, f.resolution_ca, f.resolution_cb), LAMBDA passes :
                     [error |-> "none", grid |-> [k \in 1..Len(passes) |-> Tuple(passes[k])],
                      resolution_ca |-> f.resolution_ca, resolution_cb |-> f.resolution_cb]))

\* The boxes generate_grid is called with: the two bounds of an axis, as
\* texts.  1.00000000008 is 1 + 2^-52, 1.000000000001 is 1 + 2^-60 and
\* 0.0000001 is 32^-7.
Text_1_52 == <<"1", ".", "0", "0", "0", "0", "0", "0", "0", "0", "0", "0", "8">>
Text_1_60 == <<"1", ".", "0", "0", "0", "0", "0", "0", "0", "0", "0", "0", "0", "1">>
Text_32_7 == <<"0", ".", "0", "0", "0", "0", "0", "0", "1">>
RealBoxes ==
    { <<<<"0">>, <<"1">>>>, <<<<"-", "1">>, <<"1">>>>,
      <<<<"-", "1", ".", "g">>, <<"0", ".", "g">>>>,
      <<<<"1">>, <<"0">>>>, <<<<"1">>, <<"1">>>>, <<<<"1">>, Text_1_52>>,
      <<<<"1">>, Text_1_60>>, <<<<"0">>, Text_32_7>>, <<<<"0">>, <<"z">>>> }
ImagBoxes ==
    { <<<<"0">>, <<"1">>>>, <<<<"-", "1">>, <<"1">>>>, <<<<"1">>, <<"1">>>>,
      <<<<"1">>, Text_1_52>> }
GridArgs ==
    { [min_ca |-> a[1], max_ca |-> a[2], min_cb |-> b[1], max_cb |-> b[2], resolution |-> r] :
        a \in RealBoxes, b \in ImagBoxes, r \in 0..MaxRes }
\* The calls whose grid is of a size that can be written out.
SmallGrid(a) ==
    LET f == GridFrame(a.min_ca, a.max_ca, a.min_cb, a.max_cb, a.resolution)
    IN  f.error # "large" /\ f.resolution_cb <= 2 * MaxRes

GridInit ==
    /\ Idle
    /\ fn = "generate_grid"
    /\ args \in {a \in GridArgs : SmallGrid(a)}
    /\ ret = <<>>

\* generate_grid is called and returns, or raises.
GenerateGrid ==
    /\ fn = "generate_grid"
    /\ ret = <<>>
    /\ ret' = <<generate_grid(args.min_ca, args.max_ca, args.min_cb, args.max_cb,
                              args.resolution)>>
    /\ UNCHANGED <<fn, args>>
    /\ UNCHANGED <<gridVars, csv_rows, total_points, start_max_iterations, results,
                   max_iterations, pcMain, unescape_indices, submit_i, batch_results,
                   apply_i, newly_escaped, close_i, error>>
    /\ UNCHANGED <<poolVars, threadVars, workerVars, histVars>>

\* ------------------------------------------------------ calculate_precision
FOne == [s |-> 1, n |-> <<1>>, e |-> 0]
\* 2^k as a floating-point number.
Pow2(k) == [s |-> 1, n |-> <<1>>, e |-> k]
\* floor(log2(k)) of a machine integer k >= 1.
FloorLog2(k) == Len(NFromInt(k, 2)) - 1
\* log2(e), in ten-thousandths.
Log2E == 14427

\* math.ceil(math.log2(x)) of a float x > 0, x = 2^m * (1 + f) with
\* 0 <= f < 1.  The logarithm m + log2(1 + f) is rounded to a double before
\* the ceiling is taken: it comes out as m, not above m, when log2(1 + f) is
\* less than half the distance from m to the next double towards it.
CeilLog2(x) ==
    LET m == Len(x.n) + x.e - 1
        f == FSum(x, FNeg(Pow2(m)), 2)
        a == IF m < 0 THEN -m ELSE m
        j == FloorLog2(a)
        half == IF m < 0 /\ 2 ^ j = a THEN j - 54 ELSE j - 53
        lost == /\ a >= 1
                /\ FCmp([f EXCEPT !.n = NMulSmall(f.n, Log2E, 2), !.e = f.e - m],
                        [s |-> 1, n |-> NFromInt(10000, 2), e |-> half], 2) < 0
    IN  IF FIsZero(f) \/ lost THEN m ELSE m + 1

Min2(x, y) == IF FCmp(x, y, 2) <= 0 THEN x ELSE y
Bits(b) == [error |-> "none", bits |-> b]
NoBits(e) == [error |-> e, bits |-> 0]

\* calculate_precision, lines 37-85.
calculate_precision(min_ca, max_ca, min_cb, max_cb, res_ca, res_cb) ==
    LET parse_precision == ParsePrecision(min_ca, max_ca, min_cb, max_cb)
    IN  With([min_ca_dec |-> parse_mpfr_base32(min_ca, parse_precision),
              max_ca_dec |-> parse_mpfr_base32(max_ca, parse_precision),
              min_cb_dec |-> parse_mpfr_base32(min_cb, parse_precision),
              max_cb_dec |-> parse_mpfr_base32(max_cb, parse_precision)], LAMBDA b :
        LET delta_ca == FDivSmall(FSub(b.max_ca_dec.value, b.min_ca_dec.value,
                                       ContextPrecision, 2), res_ca, ContextPrecision, 2)
            delta_cb == FDivSmall(FSub(b.max_cb_dec.value, b.min_cb_dec.value,
                                       ContextPrecision, 2), res_cb, ContextPrecision, 2)
        IN  With(Min2(FAbs(delta_ca), FAbs(delta_cb)), LAMBDA delta_c :
            With(FloatOf(FDiv(FOne, delta_c, ContextPrecision, 2)), LAMBDA inverse :
                LET required_bits == CeilLog2(inverse.v) + 32
                    precision == ((required_bits + 63) \div 64) * 64
                IN  IF \E name \in DOMAIN b : b[name].error # "none"
                    THEN NoBits("ValueError")
                    ELSE IF ~(res_ca > 1 /\ res_cb > 1) THEN Bits(64)
                    ELSE IF FIsZero(delta_c) THEN Bits(64)
                    ELSE IF inverse.inf THEN NoBits("OverflowError")
                    ELSE IF FIsZero(inverse.v) THEN NoBits("ValueError")
                    ELSE With(precision, LAMBDA bits : Bits(IF bits < 64 THEN 64 ELSE bits)))))

\* Lines 317-318 of calculate_mandelbrot_grid: calculate_precision is called
\* with the same bounds and the resolutions generate_grid returned; what it
\* returns is the precision every task of the run is submitted with.
EstimatePrecision ==
    /\ fn = "generate_grid"
    /\ Len(ret) = 1
    /\ ret[1].error = "none"
    /\ ret' = Append(ret, calculate_precision(args.min_ca, args.max_ca, args.min_cb,
                                              args.max_cb, ret[1].resolution_ca,
                                              ret[1].resolution_cb))
    /\ UNCHANGED <<fn, args>>
    /\ UNCHANGED <<gridVars, csv_rows, total_points, start_max_iterations, results,
                   max_iterations, pcMain, unescape_indices, submit_i, batch_results,
                   apply_i, newly_escaped, close_i, error>>
    /\ UNCHANGED <<poolVars, threadVars, workerVars, histVars>>

GridNext == GenerateGrid \/ EstimatePrecision

GridSpec == GridInit /\ [][GridNext]_vars

\* The boxes calculate_precision is called with.  1@-300 is 32^-300 and
\* 0.0000001 is 32^-7; 0.000000fvvvvvvvvvu is 2^-31 - 2^-84, twice the
\* largest 53-bit number below 2^-32.
Text_Tiny == <<"1", "@", "-", "3", "0", "0">>
Text_Below == <<"0", ".", "0", "0", "0", "0", "0", "0", "f", "v", "v", "v", "v", "v",
                "v", "v", "v", "v", "u">>
PrecisionBoxes ==
    { <<<<"0">>, <<"1">>>>, <<<<"-", "1">>, <<"1">>>>, <<<<"1">>, <<"1">>>>,
      <<<<"0">>, Text_32_7>>, <<<<"0">>, Text_Below>>, <<<<"0">>, Text_Tiny>>,
      <<<<"0">>, <<"z">>>> }
PrecisionArgs ==
    { [min_ca |-> a[1], max_ca |-> a[2], min_cb |-> b[1], max_cb |-> b[2],
       resolution_ca |-> r, resolution_cb |-> q] :
        a \in PrecisionBoxes, b \in {<<<<"0">>, <<"1">>>>, <<<<"1">>, <<"0">>>>},
        r \in 1..MaxRes, q \in {2, MaxRes} }

\* Two calls of calculate_precision, one after the other.
PrecisionInit ==
    /\ Idle
    /\ fn = "calculate_precision"
    /\ args \in PrecisionArgs \X PrecisionArgs
    /\ ret = <<>>

\* calculate_precision is called with the next arguments and returns, or
\* raises.
CalculatePrecision ==
    /\ fn = "calculate_precision"
    /\ Len(ret) < Len(args)
    /\ LET a == args[Len(ret) + 1]
       IN  ret' = Append(ret, calculate_precision(a.min_ca, a.max_ca, a.min_cb, a.max_cb,
                                                  a.resolution_ca, a.resolution_cb))
    /\ UNCHANGED <<fn, args>>
    /\ UNCHANGED <<gridVars, csv_rows, total_points, start_max_iterations, results,
                   max_iterations, pcMain, unescape_indices, submit_i, batch_results,
                   apply_i, newly_escaped, close_i, error>>
    /\ UNCHANGED <<poolVars, threadVars, workerVars, histVars>>

PrecisionNext == CalculatePrecision

PrecisionSpec == PrecisionInit /\ [][PrecisionNext]_vars

\* ------------------------------------------------- the codec, both variants
\* The precisions the codec is called with: calculate_precision returns
\* multiples of 64.
Precisions == {64, 128, 384}

\* The number m * 2^e, as the Decimal convert_10_to_32 makes of its base-10
\* text (exactly) and in base 2.
Dyadic(m, e) ==
    LET sign == IF m < 0 THEN -1 ELSE 1
        a == IF m < 0 THEN -m ELSE m
    IN  [dec |-> IF e >= 0
                 THEN FNorm([s |-> sign, n |-> NMul(NFromInt(a, 10), NPow(2, e, 10), 10),
                             e |-> 0])
                 ELSE FNorm([s |-> sign, n |-> NMul(NFromInt(a, 10), NPow(5, -e, 10), 10),
                             e |-> e]),
         bin |-> FNorm([s |-> sign, n |-> NFromInt(a, 2), e |-> e])]
Plus(x, y) == [dec |-> FSum(x.dec, y.dec, 10), bin |-> FSum(x.bin, y.bin, 2)]

\* The values encoded: 0, 10, 0.25, 1024, -1.5 (test_base_convert.py), and
\* 2^69 + 1, 1 + 2^-80, 1 + 2^-350.
CodecValues ==
    {Dyadic(0, 0), Dyadic(10, 0), Dyadic(1, -2), Dyadic(1, 10), Dyadic(-3, -1),
     Plus(Dyadic(1, 69), Dyadic(1, 0)), Plus(Dyadic(1, 0), Dyadic(1, -80)),
     Plus(Dyadic(1, 0), Dyadic(1, -350))}

\* The texts decoded: every text of up to MaxText characters, digits of the
\* alphabet ("0", "1", "g", "v"), letters beyond it ("w", "z") and the marks
\* of a numeral, and some longer ones.
TextAlphabet == {"0", "1", "g", "v", "w", "z", ".", "@", "-"}
LongTexts ==
    {<<"1", "@", "1", "@", "1">>, <<"1", ".", "1", ".", "1">>, <<"1", ".", "g", "@", "-", "1">>,
     <<"-", "v", "v", ".", "v", "@", "1">>, <<"1", "w", ".", "z", "@", "1">>}
CodecTexts == UNION {[1..k -> TextAlphabet] : k \in 0..MaxText} \cup LongTexts

Codecs == {"py_common", "py_box_cal"}

CodecInit ==
    /\ Idle
    /\ \/ /\ fn = "decimal_to_mpfr_base32"
          /\ args \in [codec : Codecs, d : CodecValues, precision_bits : Precisions]
       \/ /\ fn = "parse_mpfr_base32"
          /\ args \in [codec : Codecs, s : CodecTexts, precision : Precisions]
    /\ ret = <<>>

\* encode of either variant: decimal_to_mpfr_base32 of py_common on the
\* number, convert_10_to_32 of py_box_cal on its base-10 text.
encode(codec, d, precision_bits) ==
    IF codec = "py_common" THEN decimal_to_mpfr_base32(d.bin, FALSE, precision_bits)
    ELSE convert_10_to_32(d.dec, precision_bits)
\* decode of either variant.
decode(codec, s, precision) ==
    IF codec = "py_common" THEN parse_mpfr_base32(s, precision)
    ELSE Decimal_parse_mpfr_base32(s)

CodecFrame ==
    /\ UNCHANGED <<fn, args>>
    /\ UNCHANGED <<gridVars, csv_rows, total_points, start_max_iterations, results,
                   max_iterations, pcMain, unescape_indices, submit_i, batch_results,
                   apply_i, newly_escaped, close_i, error>>
    /\ UNCHANGED <<poolVars, threadVars, workerVars, histVars>>

\* A call of the encoder returns its text.
Encode ==
    /\ fn = "decimal_to_mpfr_base32"
    /\ ret = <<>>
    /\ ret' = <<encode(args.codec, args.d, args.precision_bits)>>
    /\ CodecFrame
\* The text an encoder returned is decoded at the same precision.
DecodeEncoded ==
    /\ fn = "decimal_to_mpfr_base32"
    /\ Len(ret) = 1
    /\ ret' = Append(ret, decode(args.codec, ret[1], args.precision_bits))
    /\ CodecFrame
\* A call of the decoder returns a value or raises.
Decode ==
    /\ fn = "parse_mpfr_base32"
    /\ ret = <<>>
    /\ ret' = <<decode(args.codec, args.s, args.precision)>>
    /\ CodecFrame

CodecNext == Encode \/ DecodeEncoded \/ Decode
CodecSpec == CodecInit /\ [][CodecNext]_vars

\* ------------------------------------------------------------ properties
\* How many tasks for point idx wait on the task queue, how many a
\* dispatch thread holds, and how many results carry idx.
InQueue(idx) == Cardinality({k \in 1..Len(task_queue) : task_queue[k].idx = idx})
Held(idx) == Cardinality({t \in Threads : task[t].idx = idx})
CountIdx(q, idx) == Cardinality({k \in 1..Len(q) : q[k].idx = idx})
\* The results fetched in this round (until wait() returns, batch_results
\* still holds the previous round's).
Fetched == IF pcMain \in {"submit", "wait"} THEN <<>> ELSE batch_results
ResultsWith(idx) == CountIdx(result_queue, idx) + CountIdx(Fetched, idx)
ThreadsIdle == \A t \in Threads : tpc[t] \in {"loop", "get", "exit"} /\ task[t] = NoTask
Quiescent == task_queue = <<>> /\ unfinished_tasks = 0 /\ ThreadsIdle
InLoop == pcMain \in {"select", "submit", "wait", "get_results", "apply", "decide"}
LoopExited == pcMain \in {"close", "close_put", "close_join", "close_workers",
                          "close_wait", "write", "done", "aborted"}

\* A calculate call of this round failed: its task was taken and is no
\* longer held by any thread, and no result was produced for it.
CalculateFailed ==
    \E idx \in Points : taken[idx] > 0 /\ Held(idx) = 0 /\ produced[idx] < taken[idx]

\* The main thread is inside get_results with nothing to fetch, and nothing
\* is queued, running or unfinished that could ever produce a result.
MainBlockedForever == pcMain = "get_results" /\ result_queue = <<>> /\ Quiescent

\* C1: if a worker.calculate call fails during a round the run is aborted
\* with an error: the main thread neither waits forever for that task's
\* result nor goes on to write output without it.
C1_FailedCalculateAbortsRun ==
    CalculateFailed => /\ ~MainBlockedForever
                       /\ pcMain \notin {"apply", "decide", "write", "done"}

RECURSIVE Log2Floor(_)
Log2Floor(n) == IF n < 2 THEN 0 ELSE 1 + Log2Floor(n \div 2)

\* floor(log2(C/s)) + 1 for 1 <= s <= C, one for s > C, zero for s <= 0 or
\* an empty grid.
RoundBound ==
    IF start_max_iterations <= 0 \/ total_points = 0 THEN 0
    ELSE IF start_max_iterations > max_total_iterations THEN 1
    ELSE Log2Floor(max_total_iterations \div start_max_iterations) + 1

\* C2: with fair scheduling and a back-end that answers every request with
\* a well-formed response, the adaptive loop reaches its exit, and it never
\* starts more rounds than RoundBound.
C2_LoopTerminates == <>LoopExited /\ [](rounds <= RoundBound)

\* The loop left after two rounds because the doubled target passed the
\* ceiling, with two rounds being the bound for this starting budget.
C2_Witness ==
    /\ pcMain = "close"
    /\ rounds = 2
    /\ RoundBound = 2
    /\ max_iterations > max_total_iterations

\* Every task submitted in the round has its result in the fetched batch.
RoundFetched ==
    \A idx \in Points : submitted[idx] > 0 => CountIdx(batch_results, idx) = submitted[idx]

\* C3: a GridPoint is written only by the main thread in its update loop,
\* at a moment when no task is queued, held or unfinished; and a new round
\* starts only when nothing is queued, held or unfinished, no result is
\* left on the result queue and every result of the previous round has
\* been fetched and applied.
C3_RoundBarrier ==
    [][ /\ (results' # results =>
                /\ pcMain = "apply"
                /\ Quiescent
                /\ tpc' = tpc)
        /\ (rounds' # rounds =>
                /\ Quiescent
                /\ result_queue = <<>>
                /\ (rounds > 0 => RoundFetched /\ apply_i = 1)) ]_vars

\* The second round's tasks are out, after the first round's results changed
\* the points.
C3_Witness ==
    /\ rounds = 2
    /\ pcMain = "wait"
    /\ task_queue # <<>>
    /\ \E idx \in Points : before[idx].iterations > 0

\* C4: every submitted task is either still queued or was taken by exactly
\* one dispatch thread (never twice, never lost); the results on the result
\* queue that carry a point's index are exactly the ones produced for that
\* point's task, one per successful calculation, none without a task.
C4_TaskExactlyOnce ==
    \A idx \in 0..(MaxPoints - 1) :
        /\ InQueue(idx) + taken[idx] = submitted[idx]
        /\ Held(idx) <= taken[idx]
        /\ ResultsWith(idx) = produced[idx]
        /\ produced[idx] <= taken[idx]
        /\ \A t \in Threads :
              task[t].idx = idx =>
                 /\ tpc[t] = "put" => produced[idx] = 0
                 /\ tpc[t] = "task_done" => produced[idx] = 1

\* Both tasks of a two-point round were processed and their results wait on
\* the result queue.
C4_Witness ==
    /\ pcMain = "get_results"
    /\ Len(result_queue) = 2
    /\ result_queue[1].idx # result_queue[2].idx
    /\ \A idx \in Points : submitted[idx] = 1 /\ taken[idx] = 1 /\ produced[idx] = 1

\* C5: once wait() has returned, every task submitted before it has been
\* taken and completely processed, the result of every task that completed
\* without error is on the result queue (or already fetched), and
\* get_results for the tasks of the round does not block: as many results
\* as it asks for are there.
C5_WaitThenGetResults ==
    pcMain = "get_results" =>
        /\ task_queue = <<>>
        /\ ThreadsIdle
        /\ \A idx \in Points : ResultsWith(idx) = produced[idx]
        /\ Len(result_queue) + Len(batch_results) >= Len(unescape_indices)

\* Requests written to worker w's process and not yet answered, plus
\* responses written by it and not yet read.
Outstanding(w) == Len(stdin[w]) + Len(stdout[w])

\* C6: per worker at most one request is outstanding and at most one caller
\* is inside the write-then-read exchange, and the line a caller reads is
\* the response to its own request.
C6_OneRequestInFlight ==
    /\ \A w \in Workers : Outstanding(w) <= 1 /\ Cardinality(lock[w]) <= 1
    /\ \A t \in Threads :
          (tpc[t] \in {"put", "except"} /\ response[t] # EofLine) => response[t].by = t

\* One caller's response is ready to be read while the other one, having
\* called calculate on the same worker, has not been let in to write yet.
C6_Witness ==
    \E t, u \in Threads :
        /\ t # u
        /\ worker[t] = worker[u]
        /\ tpc[t] = "recv"
        /\ stdout[worker[t]] # <<>>
        /\ tpc[u] = "calc"

\* The result of the batch that carries index idx.
ResultFor(idx) == batch_results[CHOOSE k \in 1..Len(batch_results) : batch_results[k].idx = idx]

\* How many results of the batch the update loop has applied.
AppliedSoFar == IF pcMain = "decide" THEN Len(batch_results) ELSE apply_i - 1

\* C7: during and after the update loop every point is what it was when
\* the round started, changed by the result that carries its index if that
\* result has been applied and by nothing else, whatever the order in
\* which the results arrived.
C7_AppliedByIndex ==
    pcMain \in {"apply", "decide"} =>
        \A idx \in Points :
            results[idx] =
                IF \E k \in 1..AppliedSoFar : batch_results[k].idx = idx
                THEN ApplyResult(before[idx], ResultFor(idx))
                ELSE before[idx]

\* A round whose two results arrived in the reverse of the submission order
\* and differ from each other has been applied.
C7_Witness ==
    /\ pcMain = "decide"
    /\ Len(batch_results) = 2
    /\ batch_results[1].idx > batch_results[2].idx
    /\ batch_results[1].escaped # batch_results[2].escaped

ExactShape(parts) ==
    /\ Len(parts) = 5
    /\ parts[1] = Word("CAL")
    /\ parts[2] \in {Word("Y"), Word("N")}
    /\ IsIntText(parts[5])

\* C9: calculate returns a result only for a response line of the exact
\* shape; for any other line it fails and returns nothing.
C9_OnlyExactShapeAccepted ==
    \A t \in Threads : tpc[t] = "put" => ExactShape(response[t].toks)

\* C10: close() on a worker completes without raising, also when the
\* back-end process has already exited, and writes the termination line at
\* most once.
C10_CloseSafeOnDeadProcess ==
    \A w \in Workers : closed[w] # "raised" /\ exit_sent[w] <= 1

\* pool.close() is over: it returned (the run went on to write its output)
\* or an exception left it.
PoolCloseOver == pcMain \in {"write", "done", "aborted"}

\* C11: pool.close() called after the back-end of one or more workers has
\* failed still ends every dispatch thread and performs close on every
\* worker of the pool (a failure while closing one worker does not keep the
\* remaining workers from being closed), and then returns.
C11_CloseReachesEveryWorker ==
    PoolCloseOver =>
        /\ \A t \in Threads : tpc[t] = "exit"
        /\ \A w \in Workers : closed[w] # "no"
        /\ error # "BrokenPipeError"

\* C12: a run that reaches DONE has written exactly resolution_ca x
\* resolution_cb records, one per point and in index order (record k is
\* point k - 1, whose ca and cb it carries), each with that point's grid
\* (x, y), whatever the number of rounds.
C12_OneRowPerPoint ==
    pcMain = "done" =>
        /\ Len(csv_rows) = resolution_ca * resolution_cb
        /\ \A k \in 1..Len(csv_rows) :
               /\ csv_rows[k].CA = k - 1
               /\ csv_rows[k].CB = k - 1
               /\ csv_rows[k].X = (k - 1) \div resolution_cb
               /\ csv_rows[k].Y = (k - 1) % resolution_cb

\* A run of two rounds over a grid of one column and two rows is DONE.
C12_Witness ==
    /\ pcMain = "done"
    /\ rounds >= 2
    /\ resolution_ca = 1
    /\ resolution_cb = 2
    /\ Len(csv_rows) = 2

\* C20: when a run reaches DONE, every point whose escaped flag is Y has a
\* cumulative iteration count of at least the starting iteration budget.
C20_EscapedReachedStartBudget ==
    pcMain = "done" =>
        \A idx \in Points :
            results[idx].escaped = "Y" => results[idx].iterations >= start_max_iterations

\* C20 as amended: when a run reaches DONE, every point that did not escape
\* has a cumulative iteration count of at least the starting budget, and
\* every escaped point has a count of at least 1.
C20_CountsAtDone ==
    pcMain = "done" =>
        \A idx \in Points :
            /\ results[idx].escaped = "N" => results[idx].iterations >= start_max_iterations
            /\ results[idx].escaped = "Y" => results[idx].iterations >= 1

\* A run is DONE with a point that escaped before the starting budget was
\* used up and a point that never escaped.
C20_Witness ==
    /\ pcMain = "done"
    /\ \E idx \in Points :
           results[idx].escaped = "Y" /\ results[idx].iterations < start_max_iterations
    /\ \E idx \in Points : results[idx].escaped = "N"

\* generate_grid has returned a grid.
GridReturned == fn = "generate_grid" /\ ret # <<>> /\ ret[1].error = "none"

\* C13: generate_grid called with resolution R returns R x S tuples, S the
\* resolution it derived for the imaginary axis, and the tuple at position k
\* (counted from 0) has the grid coordinates (k div S, k mod S): row-major
\* order with the real axis as the outer loop, every pair once.
C13_GridRowMajor ==
    GridReturned =>
        LET R == args.resolution
            S == ret[1].resolution_cb
            grid == ret[1].grid
        IN  /\ ret[1].resolution_ca = R
            /\ Len(grid) = R * S
            /\ \A k \in 1..Len(grid) :
                   /\ grid[k].x = (k - 1) \div S
                   /\ grid[k].y = (k - 1) % S

C13_Witness ==
    /\ GridReturned
    /\ ret[1].resolution_ca = 3
    /\ ret[1].resolution_cb = 2
    /\ Len(ret[1].grid) = 6

\* k * x, exactly (k a machine integer, not negative).
Times(x, k) == FNorm([x EXCEPT !.n = NMulSmall(x.n, k, 2)])
\* Sample v of an axis from min_dec to max_dec is nearer to place i of
\* resolution, min + (max - min) * i / resolution, than to the places next
\* to it.
AtPlace(v, min_dec, max_dec, i, resolution) ==
    LET width == FSum(max_dec, FNeg(min_dec), 2)
        off == FSum(Times(FSum(v, FNeg(min_dec), 2), resolution), FNeg(Times(width, i)), 2)
    IN  FCmp(FAbs(Times(off, 2)), FAbs(width), 2) < 0

\* C14: on an axis whose two bounds differ, sample i of a returned grid lies
\* at min + (max - min) * i / resolution, and no sample equals the maximum
\* bound of its axis.
C14_SamplesExcludeMax ==
    GridReturned =>
        LET f == GridFrame(args.min_ca, args.max_ca, args.min_cb, args.max_cb,
                           args.resolution)
            grid == ret[1].grid
        IN  \A k \in 1..Len(grid) :
                /\ FCmp(f.min_ca, f.max_ca, 2) # 0 =>
                       /\ AtPlace(grid[k].ca, f.min_ca, f.max_ca, grid[k].x, f.resolution_ca)
                       /\ FCmp(grid[k].ca, f.max_ca, 2) # 0
                /\ FCmp(f.min_cb, f.max_cb, 2) # 0 =>
                       /\ AtPlace(grid[k].cb, f.min_cb, f.max_cb, grid[k].y, f.resolution_cb)
                       /\ FCmp(grid[k].cb, f.max_cb, 2) # 0

\* The bounds of a call are texts the decoder reads.
WellFormedBounds(a) ==
    WellFormed(a.min_ca) /\ WellFormed(a.max_ca) /\ WellFormed(a.min_cb) /\ WellFormed(a.max_cb)
\* The width max - min of an axis, exactly.
Width(min_text, max_text) ==
    FAbs(FSum(TextValue(max_text, IndexOf), FNeg(TextValue(min_text, IndexOf)), 2))
\* ceil(log2(1 / step)) for the step width / res, width > 0 and res >= 1:
\* the least c with width * 2^c >= res.
CeilLog2OfInverseStep(width, res) ==
    LET t == Len(width.n) + width.e
        r == FloorLog2(res) + 1
    IN  CHOOSE c \in (r - t - 1)..(r - t + 1) :
            /\ FCmp([width EXCEPT !.e = width.e + c], [s |-> 1, n |-> NFromInt(res, 2), e |-> 0], 2) >= 0
            /\ \A d \in (r - t - 1)..(c - 1) :
                   FCmp([width EXCEPT !.e = width.e + d],
                        [s |-> 1, n |-> NFromInt(res, 2), e |-> 0], 2) < 0
\* The bits the estimator is to return for a call.
ClaimedBits(a) ==
    LET w_ca == Width(a.min_ca, a.max_ca)
        w_cb == Width(a.min_cb, a.max_cb)
    IN  IF a.resolution_ca <= 1 \/ a.resolution_cb <= 1 \/ FIsZero(w_ca) \/ FIsZero(w_cb)
        THEN 64
        ELSE LET c_ca == CeilLog2OfInverseStep(w_ca, a.resolution_ca)
                 c_cb == CeilLog2OfInverseStep(w_cb, a.resolution_cb)
                 c == IF c_ca > c_cb THEN c_ca ELSE c_cb
                 b == 64 * ((c + 32 + 63) \div 64)
             IN  IF b < 64 THEN 64 ELSE b

\* C15: called with well-formed bounds, calculate_precision does not fail;
\* it returns 64 when a resolution is <= 1 or the smaller step is zero, and
\* otherwise max(64, 64 * ceil((ceil(log2(1/step)) + 32) / 64)) for the
\* smaller step of the two axes; what it returns is a multiple of 64 and at
\* least 64.
C15_PrecisionFormula ==
    fn = "calculate_precision" =>
        \A k \in 1..Len(ret) :
            WellFormedBounds(args[k]) =>
                /\ ret[k].error = "none"
                /\ ret[k].bits = ClaimedBits(args[k])
                /\ ret[k].bits % 64 = 0
                /\ ret[k].bits >= 64

\* The second box is no wider than the first on both axes and the second
\* resolutions are no smaller than the first.
StepShrinks(a, b) ==
    /\ FCmp(Width(b.min_ca, b.max_ca), Width(a.min_ca, a.max_ca), 2) <= 0
    /\ FCmp(Width(b.min_cb, b.max_cb), Width(a.min_cb, a.max_cb), 2) <= 0
    /\ b.resolution_ca >= a.resolution_ca
    /\ b.resolution_cb >= a.resolution_cb

\* C16: when calculate_precision has returned bits for bounds B and
\* resolutions R, then for bounds no wider on both axes and resolutions no
\* smaller on both axes it returns at least as many bits.
C16_PrecisionMonotone ==
    (/\ fn = "calculate_precision"
     /\ Len(ret) = 2
     /\ WellFormedBounds(args[1])
     /\ WellFormedBounds(args[2])
     /\ StepShrinks(args[1], args[2])
     /\ ret[1].error = "none")
    => (ret[2].error = "none" /\ ret[2].bits >= ret[1].bits)

\* The calls of the codec that have returned.
Encoded == fn = "decimal_to_mpfr_base32" /\ Len(ret) >= 1
RoundTripped == fn = "decimal_to_mpfr_base32" /\ Len(ret) = 2
Decoded == fn = "parse_mpfr_base32" /\ Len(ret) = 1

\* The number of base-32 digits a nonzero v has before the radix point, and
\* whether v is a whole number of units of the n-th digit from there: v is
\* then exactly representable in n base-32 digits. One unit of that digit.
Exp32(v) == (Len(v.bin.n) + v.bin.e + 4) \div 5
Representable(v, n) == FIsZero(v.bin) \/ v.bin.e >= 5 * (Exp32(v) - n)
Unit(v, n) == Dyadic(1, 5 * (Exp32(v) - n))
\* A number in the base the variant computes in: 2 for mpfr, 10 for Decimal.
Base(codec) == IF codec = "py_common" THEN 2 ELSE 10
Exact(codec, v) == IF codec = "py_common" THEN v.bin ELSE v.dec
\* |x - v| exactly, x a value the variant's decoder returned.
Off(codec, x, v) == FAbs(FSum(x, FNeg(Exact(codec, v)), Base(codec)))

\* C17: for either variant, every precision P and every value v, the text
\* encode(v, P) decodes at P to a value: to v itself when v is exactly
\* representable in the number of base-32 digits generated for P, and
\* otherwise to a value less than one unit of the last generated digit away
\* from v.
C17_RoundTripLaw ==
    RoundTripped =>
        /\ ret[2].error = "none"
        /\ LET n == PrecisionDigits(args.precision_bits)
               off == Off(args.codec, ret[2].value, args.d)
           IN  IF Representable(args.d, n) THEN FIsZero(off)
               ELSE FCmp(off, Exact(args.codec, Unit(args.d, n)), Base(args.codec)) < 0

\* The digits of an encoded text, and how many there are from the first
\* nonzero one on.
DigitsOf(text) == Without(Without(text, "."), "-")
Significant(text) ==
    LET ds == DigitsOf(text)
        nonzero == {i \in 1..Len(ds) : ds[i] # "0"}
    IN  IF nonzero = {} THEN 0
        ELSE Len(ds) + 1 - (CHOOSE i \in nonzero : \A j \in nonzero : i <= j)

\* C18: for either variant, every precision P and every nonzero value, the
\* encoded text has exactly ceil(P * ln 2 / ln 32) + 1 digits from its first
\* nonzero digit on, trailing zeros included; 10 at 64 bits is
\* "a.0000000000000" and 0.25 at 128 bits is "0.8" and 26 zeros.
C18_FullMantissa ==
    Encoded /\ ~FIsZero(args.d.bin) =>
        /\ Significant(ret[1]) = PrecisionDigits(args.precision_bits)
        /\ args.d = Dyadic(10, 0) /\ args.precision_bits = 64
               => ret[1] = <<"a", ".">> \o ZeroText(13)
        /\ args.d = Dyadic(1, -2) /\ args.precision_bits = 128
               => ret[1] = <<"0", ".", "8">> \o ZeroText(26)

\* A text with a letter or digit outside 0-9 and a-v, or more than one
\* radix point, or more than one '@'.
Malformed(s) ==
    \/ \E i \in 1..Len(s) : IsAlnum(s[i]) /\ ~IsDigit32(s[i])
    \/ Cardinality(Positions(s, ".")) > 1
    \/ Cardinality(Positions(s, "@")) > 1

\* C19: either variant's parse_mpfr_base32 raises, and returns no value, on
\* every text with a symbol outside the alphabet 0-9 a-v, more than one radix
\* point or more than one '@'.
C19_MalformedRejected ==
    Decoded /\ Malformed(args.s) => ret[1].error # "none"

\* C21: after a round with working-set size n >= 1 in which e points
\* escaped, the loop stops if e = 0; otherwise stops if e / n < 1%;
\* otherwise it doubles the target, and then stops if the doubled target
\* exceeds 10,000,000, else starts another round with the doubled target.
\* The target changes in no other way: during round k (counted from 0) it
\* is start * 2^k.
C21_DecisionOrder ==
    /\ [][(pcMain = "decide" /\ pcMain' # "decide") =>
              LET n == Len(unescape_indices)
                  e == newly_escaped
              IN  /\ n >= 1
                  /\ IF e = 0 \/ e * 100 < n
                     THEN pcMain' = "close" /\ max_iterations' = max_iterations
                     ELSE /\ max_iterations' = 2 * max_iterations
                          /\ pcMain' = IF max_iterations' > 10000000
                                       THEN "close" ELSE "select"]_vars
    /\ [][(pcMain = "select" /\ pcMain' = "submit") =>
              (unescape_indices' # <<>> /\ max_iterations' = max_iterations)]_vars
    /\ [][max_iterations' # max_iterations => pcMain = "decide"]_vars
    /\ [](pcMain \in {"submit", "wait", "get_results", "apply", "decide"} =>
              (rounds >= 1 /\ max_iterations = start_max_iterations * 2^(rounds - 1)))

\* The loop has stopped after a round of 101 points of which one escaped:
\* less than 1%, and the target was not doubled.
C21_Witness ==
    /\ pcMain = "close"
    /\ Len(unescape_indices) = 101
    /\ newly_escaped = 1
    /\ rounds = 1
    /\ max_iterations = start_max_iterations

\* The tasks of the round that are queued or held by a dispatch thread.
TasksOut ==
    ({task_queue[k] : k \in 1..Len(task_queue)} \cup {task[t] : t \in Threads}) \ {NoTask}

\* C22: every task submitted in a round for a point carries the budget
\* (round target - the point's cumulative iterations when it was submitted),
\* which is strictly positive, and starts from the iterate the point had
\* reached; with a back-end that runs at most the budget it is given, no
\* point's cumulative count exceeds the target of the round.
C22_BudgetIsRemainder ==
    /\ \A tk \in TasksOut :
           /\ tk.max_iterations = max_iterations - before[tk.idx].iterations
           /\ tk.max_iterations > 0
           /\ tk.za = before[tk.idx].za
           /\ results[tk.idx] = before[tk.idx]
    /\ rounds >= 1 => \A idx \in Points : results[idx].iterations <= max_iterations
    /\ \A idx \in Points : results[idx].za = results[idx].iterations

\* A task of the second round is out for a point that ran one iteration in
\* the first: its budget is the target less that iteration.
C22_Witness ==
    /\ rounds = 2
    /\ \E tk \in TasksOut :
           /\ before[tk.idx].iterations > 0
           /\ tk.max_iterations < max_iterations
    /\ \E idx \in Points : results[idx].escaped = "Y"

\* The precision has been estimated for the grid generate_grid returned.
PrecisionEstimated == fn = "generate_grid" /\ Len(ret) = 2 /\ ret[2].error = "none"

SingleCalculation(T, L) ==
    IF T <= L THEN [escaped |-> "Y", iterations |-> T, final_za |-> T, final_zb |-> T]
    ELSE [escaped |-> "N", iterations |-> L, final_za |-> L, final_zb |-> L]

\* The target of the last round started, and the points that were in it.
LastTarget == start_max_iterations * 2^(rounds - 1)
InLastRound(idx) == \E k \in 1..Len(unescape_indices) : unescape_indices[k] = idx

\* The iteration at which the back-end of this run saw the point escape:
\* its cumulative count when the flag Y came back, beyond every budget while
\* it has not.
EscapeTime(idx) ==
    IF results[idx].escaped = "Y" THEN results[idx].iterations ELSE LastTarget + 1

\* A point that was not in the last round escaped in an earlier one, at an
\* iteration T within that round's target; every budget from T on gives
\* the same single calculation, and T itself is taken.
\* C24: the starting iterate sent for a point is zero in the point's first
\* round and otherwise the final iterate of the point's previous result; so
\* with a back-end that answers every request and whose iteration composes,
\* after every round each point's escaped flag, cumulative count and final
\* iterate are what one calculation from zero would return with the target
\* of the last round that included the point as its budget.
C24_CarriedIterateComposes ==
    /\ \A tk \in TasksOut :
           IF before[tk.idx].has_final
           THEN tk.za = before[tk.idx].final_za /\ tk.zb = before[tk.idx].final_zb
           ELSE tk.za = 0 /\ tk.zb = 0
    /\ (rounds >= 1 /\ (pcMain = "decide" \/ LoopExited)) =>
           \A idx \in Points :
               /\ results[idx].has_final
               /\ LET r == results[idx]
                      L == IF InLastRound(idx) THEN LastTarget ELSE r.iterations
                  IN  [escaped |-> r.escaped, iterations |-> r.iterations,
                       final_za |-> r.final_za, final_zb |-> r.final_zb]
                          = SingleCalculation(EscapeTime(idx), L)

\* A run is over in which a point ran the whole budget of the first round
\* and escaped in the second, started from the iterate it had reached.
C24_Witness ==
    /\ pcMain = "done"
    /\ rounds = 2
    /\ \E idx \in Points :
           /\ before[idx].has_final
           /\ before[idx].iterations = start_max_iterations
           /\ results[idx].escaped = "Y"
           /\ results[idx].iterations > before[idx].iterations
           /\ results[idx].final_za = results[idx].iterations

\* C25: in every round one task is submitted for every point of the working
\* set and for no other point, so the number of tasks submitted equals the
\* count passed to get_results; no pass of the submission loop takes the
\* 'iterations_to_run <= 0' branch, and no result is waited for that no
\* task was submitted for.
C25_OneTaskPerSelectedPoint ==
    /\ [][(pcMain = "submit" /\ (submit_i' # submit_i \/ pcMain' # "submit")) =>
              /\ Len(task_queue') = Len(task_queue) + 1
              /\ task_queue'[Len(task_queue')].idx = unescape_indices[submit_i]
              /\ task_queue'[Len(task_queue')].max_iterations > 0]_vars
    /\ []((rounds >= 1 /\ pcMain \in {"wait", "get_results"}) =>
              /\ \A idx \in Points : submitted[idx] = IF InLastRound(idx) THEN 1 ELSE 0
              /\ Cardinality({idx \in Points : submitted[idx] = 1}) = Len(unescape_indices))

\* The second round of a run over two points waits for the one result of
\* the one task it submitted.
C25_Witness ==
    /\ pcMain = "get_results"
    /\ rounds = 2
    /\ total_points = 2
    /\ Len(unescape_indices) = 1
    /\ submitted[unescape_indices[1]] = 1

\* C26: for every grid of more than one point the precision the estimator
\* returns is at least ceil(log2(1/d)) + 32, d the smallest nonzero spacing
\* of adjacent samples on either axis (the step width / resolution of an
\* axis of nonzero width sampled more than once), also when one axis has
\* resolution 1 and the other a larger one.
C26_PrecisionSeparatesNeighbours ==
    (PrecisionEstimated /\ Len(ret[1].grid) > 1) =>
        LET w_ca == Width(args.min_ca, args.max_ca)
            w_cb == Width(args.min_cb, args.max_cb)
        IN  /\ (ret[1].resolution_ca > 1 /\ ~FIsZero(w_ca)) =>
                   ret[2].bits >= CeilLog2OfInverseStep(w_ca, ret[1].resolution_ca) + 32
            /\ (ret[1].resolution_cb > 1 /\ ~FIsZero(w_cb)) =>
                   ret[2].bits >= CeilLog2OfInverseStep(w_cb, ret[1].resolution_cb) + 32

\* C27: in every reachable state of a run every point's cumulative
\* iteration count is at most max_total_iterations, for every starting
\* budget, with a back-end that reports no more iterations than the budget
\* of the task.
C27_CountWithinCeiling ==
    \A idx \in Points : results[idx].iterations <= max_total_iterations

\* C28: once a point's escaped flag is Y, no working set selected from then
\* on contains it, no task is submitted for it, and its escaped flag,
\* cumulative iteration count and iterates stay as they are for the rest of
\* the run.
C28_EscapedIsFinal ==
    /\ [][\A idx \in Points :
              results[idx].escaped = "Y" =>
                  /\ results'[idx] = results[idx]
                  /\ unescape_indices' # unescape_indices =>
                         \A k \in 1..Len(unescape_indices') : unescape_indices'[k] # idx
                  /\ \A k \in 1..Len(task_queue') :
                         task_queue'[k] # NoTask => task_queue'[k].idx # idx]_vars
    /\ [](\A tk \in TasksOut : results[tk.idx].escaped # "Y")

\* A run of two rounds or more is over, and a point that had escaped before
\* the last round started is as it was then.
C28_Witness ==
    /\ pcMain = "done"
    /\ rounds >= 2
    /\ \E idx \in Points :
           /\ before[idx].escaped = "Y"
           /\ results[idx] = before[idx]
           /\ ~InLastRound(idx)
    /\ \E idx \in Points : results[idx] # before[idx]

\* C29: when the adaptive loop is over, every point of a non-empty grid
\* has a final iterate (final_za, final_zb) recorded, and writing the
\* output record does not fail for any point; for every starting budget,
\* zero and negative ones included.
C29_EveryPointHasFinalIterate ==
    (LoopExited /\ total_points >= 1) =>
        /\ \A idx \in Points : results[idx].has_final
        /\ error # "KeyError"

\* Every dispatch thread has left _worker_thread.
ThreadsEnded == \A t \in Threads : tpc[t] = "exit"

\* close() is called with no task in flight, and from then on every
\* dispatch thread eventually terminates.
ThreadsEndAfterClose ==
    /\ [](pcMain = "close" => Quiescent)
    /\ (pcMain = "close") ~> ThreadsEnded

\* C30: after pool.close() is called with no task in flight, every dispatch
\* thread eventually terminates, whether it sees running = False or takes a
\* sentinel and whatever sentinels stay on the queue; afterwards, and not
\* before, each worker is sent EXIT, exactly once.
C30_CloseEndsThreadsThenWorkers ==
    /\ ThreadsEndAfterClose
    /\ [](\A w \in Workers : exit_sent[w] <= 1 /\ (exit_sent[w] = 1 => ThreadsEnded))
    /\ (pcMain = "close") ~> (PoolCloseOver /\ \A w \in Workers : exit_sent[w] = 1)

=============================================================================
